---- MODULE Spec2Model ----
(***************************************************************************)
(* A model of the voice-pipeline agent: the session state (UserData), the  *)
(* specialist registry and handoff (BaseAgent._transfer_to_agent), the     *)
(* context carryover (BaseAgent.on_enter), the memory and note tools, the  *)
(* diagnostic round trip with its filler-speech task (MainAgent) and the   *)
(* workflow step cursor (WorkflowAgent).                                   *)
(***************************************************************************)
EXTENDS Integers, Sequences, FiniteSets, TLC

VARIABLES
    agents,           \* UserData.agents: name -> specialist instance
    active,           \* session.current_agent
    prev_agent,       \* UserData.prev_agent
    hist,             \* instance -> its chat_ctx.items
    nextId,           \* next fresh item identity
    everItems,        \* every item that was ever in some history
    pendingEnter,     \* the active specialist's on_enter has not run yet
    remembered_info,  \* UserData.remembered_info
    ret,              \* what the last operation returned
    dpc,              \* to_diagnosis: where the call is
    diagnosis_result, \* to_diagnosis: its local diagnosis_result
    outcome,          \* to_diagnosis: the path the collaborators made it take
    diag_ret,         \* to_diagnosis: what the call returned
    fpc,              \* _speak_fillers: where the filler task is
    stop_event,       \* stop_filler_event.is_set()
    cancel_req,       \* filler_task.cancel() was called and not yet delivered
    spoken,           \* number of filler phrases handed to session.say
    server_url,       \* os.getenv("AITAS_SERVER_URL"), "" when unset
    current_workflow, \* WorkflowAgent.current_workflow
    current_step_index, \* WorkflowAgent.current_step_index
    workflows_cache,  \* WorkflowAgent.workflows_cache: id -> name
    nextRun,          \* next_step calls in a row since index 0, -1 when broken
    requests,         \* the requests (HTTP, RPC) the last tool call made, with their answers
    job_metadata,     \* UserData.job_metadata
    processed,        \* UserData._processed_metadata
    room,             \* the media room: whether the session reaches it, its remote participants
    current_room,     \* UserData.current_room holds the room
    ended             \* the session has ended: the shutdown callback has run

sessionVars == <<agents, active, prev_agent, hist, nextId, everItems,
                 pendingEnter, remembered_info, ret>>

diagVars == <<dpc, diagnosis_result, outcome, diag_ret, fpc, stop_event,
              cancel_req, spoken>>

wfVars == <<current_workflow, current_step_index, workflows_cache, nextRun,
            requests>>

metaVars == <<job_metadata, processed>>

roomVars == <<room, current_room, ended>>

vars == <<sessionVars, diagVars, wfVars, metaVars, server_url, roomVars>>

\* ------------------------------------------------------------------ bounds
MaxItems == 5
MaxEnters == 3
MaxNotes == 2
MaxFiller == 2
MaxSteps == 2
MaxParticipants == 2
MaxCtx == 4
MaxFailures == 1
MaxKeep == 3

\* --------------------------------------------------------------- constants
None == "None"

Main == "MainAgent"
Visual == "VisualDataAgent"
Diagnosis == "DiagnosisAgent"
Workflow == "WorkflowAgent"
Note == "NoteAgent"

Instances == {Main, Visual, Diagnosis, Workflow, Note}

\* entrypoint: userdata.agents = {...}
Registry ==
    [n \in {"main", "visual", "diagnosis", "workflow", "note"} |->
        CASE n = "main" -> Main
          [] n = "visual" -> Visual
          [] n = "diagnosis" -> Diagnosis
          [] n = "workflow" -> Workflow
          [] n = "note" -> Note]

\* names a transfer may be asked for: the registered ones and two that are not
TransferNames == DOMAIN Registry \cup {"billing", ""}

\* AITAS_SERVER_URL: unset, or set
ServerUrls == {"", "https://aitas.example"}

Keys == {"notes", "truck number"}
Values == {"42", ""}
NoteContents == {"check the capacitor"}

StrVal(s) == [t |-> "str", s |-> s, l |-> <<>>]
ListVal(l) == [t |-> "list", s |-> "", l |-> l]

EmptyInfo == [k \in {} |-> StrVal("")]

Range(s) == {s[i] : i \in 1..Len(s)}

\* ----------------------------------------------------------------- results
Result(op, arg, agent, msg) ==
    [op |-> op, arg |-> arg, agent |-> agent, msg |-> msg, raised |-> FALSE]

Raised(op, arg, exc) ==
    [op |-> op, arg |-> arg, agent |-> None, msg |-> exc, raised |-> TRUE]

\* ------------------------------------------------------------- UserData
\* UserData.summarize: {"remembered_info": remembered_info or "empty"}
Summarize(info) ==
    IF DOMAIN info = {} THEN [kind |-> "empty", info |-> EmptyInfo]
    ELSE [kind |-> "map", info |-> info]

NoSummary == [kind |-> "none", info |-> EmptyInfo]

\* "(Could not summarize user data)"
CouldNotSummarize == [kind |-> "placeholder", info |-> EmptyInfo]

\* the try around userdata.summarize() in on_enter: the summary, or the
\* placeholder when the call raised
UserSummary(failed, info) ==
    IF failed THEN CouldNotSummarize ELSE Summarize(info)

\* ---------------------------------------------------- session metadata
\* Python values: None, a str, an int, a dict (keys to values), a list
PyNone == [t |-> "none"]
PyStr(str) == [t |-> "str", s |-> str]
PyInt(n) == [t |-> "int", n |-> n]
PyDict(d) == [t |-> "dict", d |-> d]
PyList(l) == [t |-> "list", l |-> l]

EmptyDict == [k \in {} |-> PyNone]

DictPut(d, key, v) ==
    [k \in DOMAIN d \cup {key} |-> IF k = key THEN v ELSE d[k]]

\* the truth value Python gives a value
PyTruthy(v) ==
    CASE v.t = "none" -> FALSE
      [] v.t = "str" -> v.s # ""
      [] v.t = "int" -> v.n # 0
      [] v.t = "dict" -> DOMAIN v.d # {}
      [] v.t = "list" -> Len(v.l) > 0

\* the character at a position of a string, "" beyond its end
At(str, i) == IF i >= 1 /\ i <= Len(str) THEN SubSeq(str, i, i) ELSE ""

StartsWith(str, prefix) ==
    Len(str) >= Len(prefix) /\ SubSeq(str, 1, Len(prefix)) = prefix

Whitespace == {" ", "\n", "\t", "\r"}

\* str.strip() == ""
IsBlank(str) == \A i \in 1..Len(str) : At(str, i) \in Whitespace

\* json.dumps of a str: quotes and backslashes are escaped
RECURSIVE Escape(_)
Escape(str) ==
    IF Len(str) = 0 THEN ""
    ELSE LET c == At(str, 1)
         IN  (IF c = "\"" THEN "\\\"" ELSE IF c = "\\" THEN "\\\\" ELSE c)
                 \o Escape(SubSeq(str, 2, Len(str)))

RECURSIVE JsonDumps(_)
RECURSIVE DumpMembers(_, _)
\* the members of a dict, key by key
DumpMembers(d, keys) ==
    IF keys = {} THEN ""
    ELSE LET k == CHOOSE x \in keys : TRUE
             rest == keys \ {k}
         IN  "\"" \o Escape(k) \o "\": " \o JsonDumps(d[k])
                 \o (IF rest = {} THEN "" ELSE ", " \o DumpMembers(d, rest))

\* json.dumps, for strings and dicts of them
JsonDumps(v) ==
    IF v.t = "str" THEN "\"" \o Escape(v.s) \o "\""
    ELSE IF v.t = "dict" THEN "{" \o DumpMembers(v.d, DOMAIN v.d) \o "}"
    ELSE "null"

\* json.loads: a parse step gives the value read and the position after it
ParseFail == [ok |-> FALSE, v |-> PyNone, pos |-> 0]

ParseOk(v, pos) == [ok |-> TRUE, v |-> v, pos |-> pos]

RECURSIVE SkipWs(_, _)
SkipWs(str, i) == IF At(str, i) \in Whitespace THEN SkipWs(str, i + 1) ELSE i

\* the rest of a string literal, after its opening quote
RECURSIVE ParseString(_, _, _)
ParseString(str, i, acc) ==
    LET c == At(str, i)
    IN  IF c = "" THEN ParseFail
        ELSE IF c = "\"" THEN ParseOk(PyStr(acc), i + 1)
        ELSE IF c = "\\"
        THEN LET e == At(str, i + 1)
             IN  IF e \in {"\"", "\\", "/"} THEN ParseString(str, i + 2, acc \o e)
                 ELSE IF e = "n" THEN ParseString(str, i + 2, acc \o "\n")
                 ELSE IF e = "t" THEN ParseString(str, i + 2, acc \o "\t")
                 ELSE ParseFail
        ELSE IF c \in {"\n", "\t", "\r"} THEN ParseFail
        ELSE ParseString(str, i + 1, acc \o c)

Digits == <<"0", "1", "2", "3", "4", "5", "6", "7", "8", "9">>

DigitValue(c) == (CHOOSE i \in 1..10 : Digits[i] = c) - 1

RECURSIVE ParseDigits(_, _, _)
ParseDigits(str, i, acc) ==
    IF At(str, i) \in Range(Digits)
    THEN ParseDigits(str, i + 1, acc * 10 + DigitValue(At(str, i)))
    ELSE ParseOk(PyInt(acc), i)

RECURSIVE ParseValue(_, _)
RECURSIVE ParseMembers(_, _, _)
RECURSIVE ParseElements(_, _, _)
\* the members of an object, from its first key on
ParseMembers(str, i, d) ==
    IF At(str, i) # "\"" THEN ParseFail
    ELSE LET k == ParseString(str, i + 1, "")
         IN  IF ~k.ok THEN ParseFail
             ELSE LET j == SkipWs(str, k.pos)
                  IN  IF At(str, j) # ":" THEN ParseFail
                      ELSE LET v == ParseValue(str, j + 1)
                           IN  IF ~v.ok THEN ParseFail
                               ELSE LET m == SkipWs(str, v.pos)
                                        d2 == DictPut(d, k.v.s, v.v)
                                    IN  IF At(str, m) = ","
                                        THEN ParseMembers(str, SkipWs(str, m + 1), d2)
                                        ELSE IF At(str, m) = "}"
                                        THEN ParseOk(PyDict(d2), m + 1)
                                        ELSE ParseFail

\* the elements of an array, from its first element on
ParseElements(str, i, l) ==
    LET v == ParseValue(str, i)
    IN  IF ~v.ok THEN ParseFail
        ELSE LET m == SkipWs(str, v.pos)
                 l2 == Append(l, v.v)
             IN  IF At(str, m) = "," THEN ParseElements(str, m + 1, l2)
                 ELSE IF At(str, m) = "]" THEN ParseOk(PyList(l2), m + 1)
                 ELSE ParseFail

ParseValue(str, i0) ==
    LET i == SkipWs(str, i0)
        c == At(str, i)
    IN  IF c = "\"" THEN ParseString(str, i + 1, "")
        ELSE IF c = "{"
        THEN LET j == SkipWs(str, i + 1)
             IN  IF At(str, j) = "}" THEN ParseOk(PyDict(EmptyDict), j + 1)
                 ELSE ParseMembers(str, j, EmptyDict)
        ELSE IF c = "["
        THEN LET j == SkipWs(str, i + 1)
             IN  IF At(str, j) = "]" THEN ParseOk(PyList(<<>>), j + 1)
                 ELSE ParseElements(str, j, <<>>)
        ELSE IF c \in Range(Digits) THEN ParseDigits(str, i, 0)
        ELSE IF Len(str) >= i + 3 /\ SubSeq(str, i, i + 3) = "null"
        THEN ParseOk(PyNone, i + 4)
        ELSE ParseFail

\* json.loads: ok is FALSE where it raises JSONDecodeError
JsonLoads(str) ==
    LET r == ParseValue(str, 1)
    IN  IF r.ok /\ SkipWs(str, r.pos) > Len(str) THEN r ELSE ParseFail

RawValue(str) == PyDict(DictPut(EmptyDict, "raw_value", PyStr(str)))

\* UserData.processed_metadata (mutant: a text that fails to parse is
\* reported as an error instead of being kept as raw_value)
ProcessedMetadataNoSalvage(cached, metadata) ==
    IF cached # PyNone THEN cached
    ELSE IF ~PyTruthy(metadata) THEN PyNone
    ELSE IF metadata.t = "str" /\ IsBlank(metadata.s) THEN PyNone
    ELSE IF metadata.t = "dict" THEN metadata
    ELSE IF metadata.t = "str"
    THEN IF ~StartsWith(metadata.s, "{") /\ ~StartsWith(metadata.s, "[")
         THEN RawValue(metadata.s)
         ELSE LET parsed_data == JsonLoads(metadata.s)
              IN  IF ~parsed_data.ok
                  THEN PyDict(DictPut(EmptyDict, "error", PyStr("JSONDecodeError")))
                  ELSE IF parsed_data.v.t = "str"
                  THEN LET second == JsonLoads(parsed_data.v.s)
                       IN  IF second.ok THEN second.v ELSE parsed_data.v
                  ELSE parsed_data.v
    ELSE RawValue("")

\* UserData.processed_metadata: the value the property returns, which is also
\* the value cached when it is not None.  A text that starts with neither
\* "{" nor "[" is kept as raw_value before any parse.
ProcessedMetadata(cached, metadata) ==
    IF cached # PyNone THEN cached
    ELSE IF ~PyTruthy(metadata) THEN PyNone
    ELSE IF metadata.t = "str" /\ IsBlank(metadata.s) THEN PyNone
    ELSE IF metadata.t = "dict" THEN metadata
    ELSE IF metadata.t = "str"
    THEN IF ~StartsWith(metadata.s, "{") /\ ~StartsWith(metadata.s, "[")
         THEN RawValue(metadata.s)
         ELSE LET parsed_data == JsonLoads(metadata.s)
              IN  IF ~parsed_data.ok THEN RawValue(metadata.s)
                  ELSE IF parsed_data.v.t = "str"
                  THEN LET second == JsonLoads(parsed_data.v.s)
                       IN  IF second.ok THEN second.v ELSE parsed_data.v
                  ELSE parsed_data.v
    ELSE RawValue("")

\* UserData.get_metadata_field, given the processed metadata
MetadataField(metadata, field_name, default_value) ==
    IF ~PyTruthy(metadata) \/ metadata.t # "dict" THEN default_value
    ELSE IF field_name \in DOMAIN metadata.d THEN metadata.d[field_name]
    ELSE default_value

\* the first of the fields whose value is truthy, else the fallback
RECURSIVE FirstTruthy(_, _, _)
FirstTruthy(metadata, possible_fields, fallback) ==
    IF Len(possible_fields) = 0 THEN fallback
    ELSE LET v == MetadataField(metadata, possible_fields[1], PyNone)
         IN  IF PyTruthy(v) THEN v
             ELSE FirstTruthy(metadata, Tail(possible_fields), fallback)

CompanyIdFields ==
    <<"companyId", "company_id", "CompanyId", "companyID", "company">>

UserNameFields ==
    <<"sessionDOName", "sessionName", "name", "user", "userName", "user_name">>

\* the cache after get_company_id, which reads processed_metadata
AfterGetCompanyId == ProcessedMetadata(processed, job_metadata)

\* the objects a client may send as metadata
Obj1(k, v) == DictPut(EmptyDict, k, PyStr(v))

Obj2(k1, v1, k2, v2) == DictPut(Obj1(k1, v1), k2, PyStr(v2))

MetadataObjects ==
    { Obj2("sessionDOName", "Sam", "companyId", "c1"),
      Obj2("name", "Lee \"Ace\"", "company", "c2"),
      Obj2("user", "", "userName", "Kim") }

\* the metadata strings a session may start with: an object as JSON, the same
\* after a second json.dumps, the same after a blank, a tag, a broken text,
\* a blank text, an array, a JSON string that holds no JSON
MetadataTexts ==
    {JsonDumps(PyDict(o)) : o \in MetadataObjects}
    \cup {JsonDumps(PyStr(JsonDumps(PyDict(o)))) : o \in MetadataObjects}
    \cup {" " \o JsonDumps(PyDict(Obj1("name", "Lee")))}
    \cup {"dispatch_via_api", "{not json", "   ", "[\"a\"]", "\"plain\""}

MetadataFields == {"companyId", "name", "raw_value"}

\* what a metadata helper leaves alone
MetadataFrame ==
    /\ UNCHANGED <<agents, active, prev_agent, hist, nextId, everItems,
                   pendingEnter, remembered_info>>
    /\ UNCHANGED <<diagVars, wfVars, server_url, roomVars>>

\* entrypoint: the metadata found for the job is stored, None when there is none
StoreJobMetadata ==
    /\ ret.op = "start"
    /\ \E text \in MetadataTexts \cup {""} :
          /\ job_metadata' = IF text = "" THEN PyNone ELSE PyStr(text)
          /\ ret' = Result("store_metadata", text, None, "")
    /\ UNCHANGED processed
    /\ MetadataFrame

\* a read of UserData.processed_metadata
ReadProcessedMetadata ==
    /\ ret.op # "start"
    /\ processed' = ProcessedMetadata(processed, job_metadata)
    /\ ret' = Result("processed_metadata", "", None, processed')
    /\ UNCHANGED job_metadata
    /\ MetadataFrame

\* UserData.get_metadata_field
GetMetadataField(field_name) ==
    /\ ret.op # "start"
    /\ processed' = ProcessedMetadata(processed, job_metadata)
    /\ ret' = Result("get_metadata_field", field_name, None,
                  MetadataField(processed', field_name, PyNone))
    /\ UNCHANGED job_metadata
    /\ MetadataFrame

\* UserData.get_company_id
GetCompanyId ==
    /\ ret.op # "start"
    /\ processed' = ProcessedMetadata(processed, job_metadata)
    /\ ret' = Result("get_company_id", "", None,
                  FirstTruthy(processed', CompanyIdFields, PyNone))
    /\ UNCHANGED job_metadata
    /\ MetadataFrame

\* UserData.get_user_name: when none of the fields holds a name, the keys of
\* the metadata are logged before the fallback is returned, and reading
\* .keys() fails on metadata that is not empty and not a dict
GetUserName ==
    /\ ret.op # "start"
    /\ processed' = ProcessedMetadata(processed, job_metadata)
    /\ LET user_name == FirstTruthy(processed', UserNameFields, PyNone)
       IN  ret' = IF PyTruthy(user_name)
                  THEN Result("get_user_name", "", None, user_name)
                  ELSE IF PyTruthy(processed') /\ processed'.t # "dict"
                  THEN Raised("get_user_name", "", PyStr("AttributeError"))
                  ELSE Result("get_user_name", "", None, PyStr("there"))
    /\ UNCHANGED job_metadata
    /\ MetadataFrame

\* ---------------------------------------------------------------- items
SystemItem(id, agent_name, user_summary) ==
    [id |-> id, role |-> "system", agent |-> agent_name, summary |-> user_summary]

UserItem(id) ==
    [id |-> id, role |-> "user", agent |-> "", summary |-> NoSummary]

Ids(items) == {items[i].id : i \in 1..Len(items)}

\* --------------------------------------------------- BaseAgent.on_enter
\* existing_ids, then the previous history filtered by them, then extend
CarryOverNoFilter(cur, prevItems) == cur \o prevItems

CarryOverLastOnly(cur, prevItems) ==
    LET existing_ids == Ids(cur)
        items_copy == SelectSeq(prevItems, LAMBDA it : it.id \notin existing_ids)
    IN  cur \o (IF Len(items_copy) > 1 THEN <<items_copy[Len(items_copy)]>>
                ELSE items_copy)

CarryOver(cur, prevItems) ==
    LET existing_ids == Ids(cur)
        items_copy == SelectSeq(prevItems, LAMBDA it : it.id \notin existing_ids)
    IN  cur \o items_copy

\* mutants: a failed summarize aborts the activation, leaving the history as
\* it was; the system message is put before the carried items
BaseOnEnterAbortsOnFailure(own, id, failed) ==
    LET prevItems == IF prev_agent = active THEN own ELSE hist[prev_agent]
        chat_ctx == IF prev_agent # None
                    THEN CarryOver(own, prevItems)
                    ELSE own
    IN  IF failed THEN own
        ELSE Append(chat_ctx, SystemItem(id, active, Summarize(remembered_info)))

BaseOnEnterSummaryFirst(own, id, failed) ==
    LET prevItems == IF prev_agent = active THEN own ELSE hist[prev_agent]
        with_summary ==
            Append(own, SystemItem(id, active, UserSummary(failed, remembered_info)))
    IN  IF prev_agent # None THEN CarryOver(with_summary, prevItems)
        ELSE with_summary

\* BaseAgent.on_enter applied to the history `own` of the entering specialist;
\* `failed` says that userdata.summarize() raised
BaseOnEnter(own, id, failed) ==
    LET prevItems == IF prev_agent = active THEN own ELSE hist[prev_agent]
        chat_ctx == IF prev_agent # None
                    THEN CarryOver(own, prevItems)
                    ELSE own
    IN  Append(chat_ctx, SystemItem(id, active, UserSummary(failed, remembered_info)))

\* how often userdata.summarize() has raised in this session
SummarizeFailures ==
    Cardinality({it \in everItems : it.summary = CouldNotSummarize})

\* on_enter of the active specialist; VisualDataAgent first adds the captured
\* image as a user message when it holds the room and a frame was captured.
\* Item identities are drawn up to `limit`, and summarize raises at most
\* MaxFailures times
\* mutant: on_enter of the Workflow specialist starts it afresh
OnEnterResetsCursor(limit) ==
    /\ pendingEnter
    /\ \E img \in (IF active = Visual /\ current_room THEN BOOLEAN ELSE {FALSE}) :
       \E failed \in (IF SummarizeFailures < MaxFailures THEN BOOLEAN ELSE {FALSE}) :
        LET own == IF img THEN Append(hist[active], UserItem(nextId))
                   ELSE hist[active]
            n == IF img THEN 2 ELSE 1
            new == BaseOnEnter(own, nextId + n - 1, failed)
        IN  /\ nextId + n - 1 <= limit
            /\ hist' = [hist EXCEPT ![active] = new]
            /\ nextId' = nextId + n
            /\ everItems' = everItems \cup Range(new)
            /\ ret' = Result("on_enter",
                             IF failed THEN "summarize_failed" ELSE "", active, "")
    /\ pendingEnter' = FALSE
    /\ IF active = "WorkflowAgent"
       THEN /\ current_workflow' =
                   [loaded |-> FALSE, id |-> "", name |-> StrVal(""),
                    description |-> "", steps |-> <<>>]
            /\ current_step_index' = 0
            /\ workflows_cache' = <<>>
            /\ UNCHANGED <<nextRun, requests>>
       ELSE UNCHANGED wfVars
    /\ UNCHANGED <<agents, active, prev_agent, remembered_info>>
    /\ UNCHANGED <<diagVars, metaVars, server_url, roomVars>>

OnEnterWithin(limit) ==
    /\ pendingEnter
    /\ \E img \in (IF active = Visual /\ current_room THEN BOOLEAN ELSE {FALSE}) :
       \E failed \in (IF SummarizeFailures < MaxFailures THEN BOOLEAN ELSE {FALSE}) :
        LET own == IF img THEN Append(hist[active], UserItem(nextId))
                   ELSE hist[active]
            n == IF img THEN 2 ELSE 1
            new == BaseOnEnter(own, nextId + n - 1, failed)
        IN  /\ nextId + n - 1 <= limit
            /\ hist' = [hist EXCEPT ![active] = new]
            /\ nextId' = nextId + n
            /\ everItems' = everItems \cup Range(new)
            /\ ret' = Result("on_enter",
                             IF failed THEN "summarize_failed" ELSE "", active, "")
    /\ pendingEnter' = FALSE
    /\ UNCHANGED <<agents, active, prev_agent, remembered_info>>
    /\ UNCHANGED <<diagVars, wfVars, metaVars, server_url, roomVars>>

OnEnter == OnEnterWithin(MaxItems)

\* a conversation turn: a new item is appended to the active specialist's history
Converse ==
    /\ ~pendingEnter
    /\ nextId <= MaxItems
    /\ hist' = [hist EXCEPT ![active] = Append(@, UserItem(nextId))]
    /\ everItems' = everItems \cup {UserItem(nextId)}
    /\ nextId' = nextId + 1
    /\ ret' = Result("converse", "", active, "")
    /\ UNCHANGED <<agents, active, prev_agent, pendingEnter, remembered_info>>
    /\ UNCHANGED <<diagVars, wfVars, metaVars, server_url, roomVars>>

\* ------------------------------------------ BaseAgent._truncate_chat_ctx
\* chat items as the truncation sees them: type, role and, for a function
\* call and its output, the call they belong to; the identity is the place
\* the item has in the context
MessageItem(id, role) ==
    [id |-> id, type |-> "message", role |-> role, call_id |-> ""]

FunctionCall(id, call_id) ==
    [id |-> id, type |-> "function_call", role |-> "", call_id |-> call_id]

FunctionCallOutput(id, call_id) ==
    [id |-> id, type |-> "function_call_output", role |-> "", call_id |-> call_id]

\* _valid_item
ValidItem(item, keep_system_message, keep_function_call) ==
    IF ~keep_system_message /\ item.type = "message" /\ item.role = "system"
    THEN FALSE
    ELSE IF ~keep_function_call
              /\ item.type \in {"function_call", "function_call_output"}
    THEN FALSE
    ELSE TRUE

\* the loop over reversed(items) from place i down: a valid item is taken and
\* counted, and the loop is left once the count has reached the limit
RECURSIVE TakeFromEnd(_, _, _, _, _, _)
TakeFromEnd(items, i, count, keep_last_n_messages, keep_system_message, keep_function_call) ==
    IF i = 0 THEN <<>>
    ELSE LET valid == ValidItem(items[i], keep_system_message, keep_function_call)
             taken == IF valid THEN <<items[i]>> ELSE <<>>
             n == IF valid THEN count + 1 ELSE count
         IN  IF n >= keep_last_n_messages THEN taken
             ELSE taken \o TakeFromEnd(items, i - 1, n, keep_last_n_messages,
                                       keep_system_message, keep_function_call)

\* new_items[::-1]
Reverse(seq) == [i \in 1..Len(seq) |-> seq[Len(seq) + 1 - i]]

\* the while loop that pops leading function_call_output items
RECURSIVE DropLeadingOutputs(_)
DropLeadingOutputs(new_items) ==
    IF Len(new_items) > 0 /\ new_items[1].type = "function_call_output"
    THEN DropLeadingOutputs(Tail(new_items))
    ELSE new_items

TruncateChatCtx(items, keep_last_n_messages, keep_system_message, keep_function_call) ==
    IF Len(items) = 0 THEN <<>>
    ELSE DropLeadingOutputs(Reverse(
             TakeFromEnd(items, Len(items), 0, keep_last_n_messages,
                         keep_system_message, keep_function_call)))

\* the contexts handed to the truncation: up to MaxCtx items, each a user or
\* system message, a function call or the output of a call; an output comes
\* after its call and no call or output is there twice
ItemKinds == {"user", "system", "call1", "call2", "out1", "out2"}

ItemOf(kind, id) ==
    CASE kind = "user" -> MessageItem(id, "user")
      [] kind = "system" -> MessageItem(id, "system")
      [] kind = "call1" -> FunctionCall(id, "c1")
      [] kind = "call2" -> FunctionCall(id, "c2")
      [] kind = "out1" -> FunctionCallOutput(id, "c1")
      [] kind = "out2" -> FunctionCallOutput(id, "c2")

WellFormedKinds(ks) ==
    /\ \A i, j \in 1..Len(ks) :
          (ks[i] = ks[j] /\ ks[i] \notin {"user", "system"}) => i = j
    /\ \A i \in 1..Len(ks) :
          /\ ks[i] = "out1" => \E j \in 1..(i - 1) : ks[j] = "call1"
          /\ ks[i] = "out2" => \E j \in 1..(i - 1) : ks[j] = "call2"

ChatContexts ==
    {[i \in 1..Len(ks) |-> ItemOf(ks[i], i)] :
        ks \in {k \in UNION {[1..n -> ItemKinds] : n \in 0..MaxCtx} :
                   WellFormedKinds(k)}}

\* one call of _truncate_chat_ctx on a session's context
TruncateCall ==
    /\ ret.op = "start"
    /\ \E items \in ChatContexts :
       \E keep_last_n_messages \in 0..MaxKeep :
       \E keep_system_message \in BOOLEAN :
       \E keep_function_call \in BOOLEAN :
          ret' = Result("_truncate_chat_ctx",
                        [items |-> items,
                         keep_last_n_messages |-> keep_last_n_messages,
                         keep_system_message |-> keep_system_message,
                         keep_function_call |-> keep_function_call],
                        None,
                        TruncateChatCtx(items, keep_last_n_messages,
                                        keep_system_message, keep_function_call))
    /\ UNCHANGED <<agents, active, prev_agent, hist, nextId, everItems,
                   pendingEnter, remembered_info>>
    /\ UNCHANGED <<diagVars, wfVars, metaVars, server_url, roomVars>>

\* ------------------------------------------ BaseAgent._transfer_to_agent
\* mutants: the previous specialist recorded before the registry check; the
\* failure returning no specialist; the success not recording the previous one
TransferRecordsFirst(name) ==
    /\ prev_agent' = active
    /\ IF name \notin DOMAIN agents
       THEN /\ ret' = Result("transfer", name, active,
                  "Sorry, I encountered an issue and cannot transfer to " \o name \o " right now.")
            /\ active' = active
       ELSE /\ ret' = Result("transfer", name, agents[name],
                  IF name = "main"
                  THEN "Alright, I understand. Let's get back to our conversation."
                  ELSE "Okay, I can help you with that.")
            /\ active' = agents[name]
    /\ pendingEnter' = TRUE
    /\ UNCHANGED <<agents, hist, nextId, everItems, remembered_info>>
    /\ UNCHANGED <<diagVars, wfVars, metaVars, server_url, roomVars>>

TransferFailsToNone(name) ==
    /\ IF name \notin DOMAIN agents
       THEN /\ ret' = Result("transfer", name, None,
                  "Sorry, I encountered an issue and cannot transfer to " \o name \o " right now.")
            /\ active' = None
            /\ UNCHANGED prev_agent
       ELSE /\ prev_agent' = active
            /\ ret' = Result("transfer", name, agents[name],
                  IF name = "main"
                  THEN "Alright, I understand. Let's get back to our conversation."
                  ELSE "Okay, I can help you with that.")
            /\ active' = agents[name]
    /\ pendingEnter' = TRUE
    /\ UNCHANGED <<agents, hist, nextId, everItems, remembered_info>>
    /\ UNCHANGED <<diagVars, wfVars, metaVars, server_url, roomVars>>

TransferKeepsPrev(name) ==
    /\ IF name \notin DOMAIN agents
       THEN /\ ret' = Result("transfer", name, active,
                  "Sorry, I encountered an issue and cannot transfer to " \o name \o " right now.")
            /\ active' = active
            /\ UNCHANGED prev_agent
       ELSE /\ prev_agent' = IF prev_agent = None THEN active ELSE prev_agent
            /\ ret' = Result("transfer", name, agents[name],
                  IF name = "main"
                  THEN "Alright, I understand. Let's get back to our conversation."
                  ELSE "Okay, I can help you with that.")
            /\ active' = agents[name]
    /\ pendingEnter' = TRUE
    /\ UNCHANGED <<agents, hist, nextId, everItems, remembered_info>>
    /\ UNCHANGED <<diagVars, wfVars, metaVars, server_url, roomVars>>

\* mutant: a transfer to the specialist that is already active does nothing
TransferSkipsSelf(name) ==
    /\ IF name \notin DOMAIN agents
       THEN /\ ret' = Result("transfer", name, active,
                  "Sorry, I encountered an issue and cannot transfer to " \o name \o " right now.")
            /\ active' = active
            /\ UNCHANGED prev_agent
       ELSE /\ prev_agent' = IF agents[name] = active THEN prev_agent ELSE active
            /\ ret' = Result("transfer", name, agents[name],
                  IF name = "main"
                  THEN "Alright, I understand. Let's get back to our conversation."
                  ELSE "Okay, I can help you with that.")
            /\ active' = agents[name]
    /\ pendingEnter' = TRUE
    /\ UNCHANGED <<agents, hist, nextId, everItems, remembered_info>>
    /\ UNCHANGED <<diagVars, wfVars, metaVars, server_url, roomVars>>

\* the tool's result (Agent, str) makes the returned specialist the session's
\* current agent, whose on_enter then runs
TransferToAgent(name) ==
    /\ IF name \notin DOMAIN agents
       THEN /\ ret' = Result("transfer", name, active,
                  "Sorry, I encountered an issue and cannot transfer to " \o name \o " right now.")
            /\ active' = active
            /\ UNCHANGED prev_agent
       ELSE /\ prev_agent' = active
            /\ ret' = Result("transfer", name, agents[name],
                  IF name = "main"
                  THEN "Alright, I understand. Let's get back to our conversation."
                  ELSE "Okay, I can help you with that.")
            /\ active' = agents[name]
    /\ pendingEnter' = TRUE
    /\ UNCHANGED <<agents, hist, nextId, everItems, remembered_info>>
    /\ UNCHANGED <<diagVars, wfVars, metaVars, server_url, roomVars>>


\* ------------------------------------------------ MainAgent.to_diagnosis
DefaultError == "Sorry, an unexpected error occurred during diagnosis."
NoRoom == "Sorry, I cannot access room details needed for diagnosis."
NoDevice == "Sorry, I couldn't identify the correct device to retrieve data from."
NoServerUrl == "Sorry, the diagnosis service isn't configured correctly right now."
AccessIssue == "Sorry, I encountered an issue accessing required information."
Unreachable == "Sorry, I couldn't reach the diagnosis service right now."
RpcFailed == "Sorry, I couldn't retrieve the FieldPiece data at the moment."
Unexpected == "Sorry, an unexpected error occurred while processing the diagnosis."
NoDiagnosisField == "Diagnosis not found in response."

StatusCodes == {404, 500}

StatusText(code) == IF code = 404 THEN "404" ELSE "500"

ServiceError(code) ==
    "The diagnosis service reported an error (" \o StatusText(code)
        \o "). Please try again later."

\* the diagnosis texts the backend may send
DiagnosisTexts == {"Low refrigerant charge."}

\* JSON values that are no string
JsonNull == [t |-> "null", s |-> "", l |-> <<>>]
JsonNumber == [t |-> "number", s |-> "", l |-> <<>>]

Apologies ==
    {DefaultError, NoRoom, NoDevice, NoServerUrl, AccessIssue, Unreachable,
     RpcFailed, Unexpected} \cup {ServiceError(c) : c \in StatusCodes}

NotReturned == [raised |-> FALSE, value |-> StrVal("")]

\* the finally block up to its await: the stop event is set and the filler
\* task is cancelled, then the call waits for the task
FinallyNoStop(result, oc) ==
    /\ diagnosis_result' = result
    /\ outcome' = oc
    /\ UNCHANGED <<stop_event, cancel_req>>
    /\ dpc' = "wait"

Finally(result, oc) ==
    /\ diagnosis_result' = result
    /\ outcome' = oc
    /\ stop_event' = TRUE
    /\ cancel_req' = TRUE
    /\ dpc' = "wait"

\* what the synchronous part before the RPC leaves in diagnosis_result
StartResult(oc) ==
    CASE oc = "no_room_io" -> StrVal(NoRoom)
      [] oc = "attr_error_room" -> StrVal(NoRoom)
      [] oc = "attr_error_other" -> StrVal(AccessIssue)
      [] oc = "no_device" -> StrVal(NoDevice)

\* a remote participant: its identity and its metadata, "" when it has none
Participant(identity, metadata) == [identity |-> identity, metadata |-> metadata]

Participants ==
    { Participant("tech-phone", "android"),
      Participant("tech-tablet", "android 14"),
      Participant("viewer", "web android"),
      Participant("observer", "") }

\* the rooms a call may find: none behind the session, or one with up to
\* MaxParticipants remote participants, no identity twice
Rooms ==
    {[available |-> FALSE, participants |-> <<>>]} \cup
    {[available |-> TRUE, participants |-> ps] :
        ps \in {q \in UNION {[1..n -> Participants] : n \in 0..MaxParticipants} :
                  \A i, j \in 1..Len(q) : q[i] = q[j] => i = j}}

\* mutant: the first remote participant is taken, whatever its metadata
FindClientAny(participants) ==
    IF Len(participants) = 0 THEN "" ELSE participants[1].identity

\* the scan of room.remote_participants: the identity of the first one whose
\* metadata starts with "android", "" when there is none
RECURSIVE FindClient(_)
FindClient(participants) ==
    IF Len(participants) = 0 THEN ""
    ELSE LET p == participants[1]
         IN  IF p.metadata # "" /\ StartsWith(p.metadata, "android")
             THEN p.identity
             ELSE FindClient(Tail(participants))

\* perform_rpc(destination_identity, method='getFieldpieceData')
RpcRequest(client_identity) ==
    [endpoint |-> "rpc:getFieldpieceData", id |-> client_identity, kind |-> "",
     code |-> 0, steps |-> <<>>]

\* POST {server_url}/diagnoseV2
PostRequest ==
    [endpoint |-> "/diagnoseV2", id |-> "", kind |-> "", code |-> 0,
     steps |-> <<>>]

\* the path the synchronous part takes: an AttributeError raised on the way,
\* no room behind the session, no android client, or the client found
StartOutcome(fault, r) ==
    IF fault # "none" THEN fault
    ELSE IF ~r.available THEN "no_room_io"
    ELSE IF FindClient(r.participants) = "" THEN "no_device"
    ELSE "device_found"

\* the call up to its first await: the filler task is created, the room is
\* looked up, the remote participants are scanned for the android client and
\* the RPC to it is issued; the room is one of `rooms`
DiagStartIn(rooms) ==
    /\ dpc = "idle"
    /\ fpc' = "created"
    /\ \E r \in rooms :
       \E fault \in {"none", "attr_error_room", "attr_error_other"} :
          LET oc == StartOutcome(fault, r)
          IN  /\ room' = r
              /\ IF oc = "device_found"
                 THEN /\ dpc' = "rpc"
                      /\ diagnosis_result' = StrVal(DefaultError)
                      /\ outcome' = oc
                      /\ stop_event' = FALSE
                      /\ cancel_req' = FALSE
                      /\ requests' = <<RpcRequest(FindClient(r.participants))>>
                 ELSE /\ Finally(StartResult(oc), oc)
                      /\ requests' = <<>>
    /\ UNCHANGED <<diag_ret, spoken>>
    /\ UNCHANGED <<current_workflow, current_step_index, workflows_cache,
                   nextRun>>
    /\ UNCHANGED <<sessionVars, metaVars, server_url, current_room, ended>>

DiagStart == DiagStartIn(Rooms)

\* what a failed perform_rpc leaves in diagnosis_result, by the except clause
\* that catches it
RpcResult(oc) ==
    CASE oc = "rpc_attr_error" -> StrVal(AccessIssue)
      [] oc = "rpc_error_named" -> StrVal(RpcFailed)
      [] oc = "rpc_error_other" -> StrVal(Unexpected)

\* perform_rpc returns or raises; on success AITAS_SERVER_URL is read and the
\* POST is issued
DiagRpcDone ==
    /\ dpc = "rpc"
    /\ \E oc \in {"rpc_attr_error", "rpc_error_named", "rpc_error_other",
                  "rpc_ok"} :
          IF oc = "rpc_ok"
          THEN IF server_url = ""
               THEN /\ Finally(StrVal(NoServerUrl), "no_server_url")
                    /\ UNCHANGED requests
               ELSE /\ dpc' = "http"
                    /\ outcome' = oc
                    /\ requests' = Append(requests, PostRequest)
                    /\ UNCHANGED <<diagnosis_result, stop_event, cancel_req>>
          ELSE /\ Finally(RpcResult(oc), oc)
               /\ UNCHANGED requests
    /\ UNCHANGED <<diag_ret, fpc, spoken>>
    /\ UNCHANGED <<current_workflow, current_step_index, workflows_cache,
                   nextRun>>
    /\ UNCHANGED <<sessionVars, metaVars, server_url, roomVars>>

\* what the POST and the reading of its response leave in diagnosis_result
HttpResult(oc, code, text) ==
    CASE oc = "http_request_error" -> StrVal(Unreachable)
      [] oc = "http_status_error" -> StrVal(ServiceError(code))
      [] oc = "http_bad_json" -> StrVal(Unexpected)
      [] oc = "http_not_object" -> StrVal(AccessIssue)
      [] oc = "http_no_field" -> StrVal(NoDiagnosisField)
      [] oc = "http_ok" -> StrVal(text)
      [] oc = "http_null_field" -> JsonNull
      [] oc = "http_number_field" -> JsonNumber

DiagHttpDone ==
    /\ dpc = "http"
    /\ \E oc \in {"http_request_error", "http_status_error", "http_bad_json",
                  "http_not_object", "http_no_field", "http_ok",
                  "http_null_field", "http_number_field"} :
       \E code \in (IF oc = "http_status_error" THEN StatusCodes ELSE {500}) :
       \E text \in DiagnosisTexts :
          Finally(HttpResult(oc, code, text), oc)
    /\ UNCHANGED <<diag_ret, fpc, spoken>>
    /\ UNCHANGED <<sessionVars, wfVars, metaVars, server_url, roomVars>>

FillerFinished == fpc \in {"done", "cancelled"}

\* wait_for(filler_task, timeout=1.0) ends: the task finished (normally or by
\* cancellation), or the timeout passed first; either way the call returns
\* diagnosis_result, unless the call itself was cancelled at its await: then
\* the CancelledError, which no except clause of the try catches, goes on
\* after the finally block
DiagReturn ==
    /\ dpc = "wait"
    /\ dpc' = "returned"
    /\ diag_ret' = IF outcome = "cancelled"
                   THEN [raised |-> TRUE, value |-> StrVal("CancelledError")]
                   ELSE [raised |-> FALSE, value |-> diagnosis_result]
    /\ UNCHANGED <<diagnosis_result, outcome, fpc, stop_event, cancel_req, spoken>>
    /\ UNCHANGED <<sessionVars, wfVars, metaVars, server_url, roomVars>>

\* ------------------------------------------------------ session shutdown
\* POST {server_url}/v2/generate-report
ReportRequest ==
    [endpoint |-> "/v2/generate-report", id |-> "", kind |-> "", code |-> 0,
     steps |-> <<>>]

\* the session ends and the shutdown callback, send_transcript_on_shutdown,
\* runs: the transcript is posted when the backend URL is set. The callback
\* touches neither the filler task nor UserData.current_room. Whether the
\* ending session cancels a to_diagnosis call that is waiting for the RPC or
\* the backend is decided outside this code: either it does, and the call's
\* finally block runs, or the call goes on
SessionEnd ==
    /\ ~ended
    /\ ended' = TRUE
    /\ \E cancelled \in (IF dpc \in {"rpc", "http"} THEN BOOLEAN ELSE {FALSE}) :
          IF cancelled
          THEN Finally(diagnosis_result, "cancelled")
          ELSE UNCHANGED <<dpc, diagnosis_result, outcome, stop_event, cancel_req>>
    /\ requests' = IF server_url = "" THEN requests
                   ELSE Append(requests, ReportRequest)
    /\ ret' = Result("send_transcript_on_shutdown", "", None, "")
    /\ UNCHANGED <<agents, active, prev_agent, hist, nextId, everItems,
                   pendingEnter, remembered_info>>
    /\ UNCHANGED <<diag_ret, fpc, spoken>>
    /\ UNCHANGED <<current_workflow, current_step_index, workflows_cache,
                   nextRun>>
    /\ UNCHANGED <<metaVars, server_url, room, current_room>>

\* ----------------------------------------------- MainAgent._speak_fillers
\* the top of the while loop: leave when the stop event is set, else sleep
LoopTop == IF stop_event THEN "done" ELSE "sleep8"

\* mutant: the task speaks a phrase as soon as it starts
FillerStartSpeaksAtOnce ==
    /\ fpc = "created"
    /\ IF cancel_req
       THEN fpc' = "cancelled" /\ UNCHANGED spoken
       ELSE fpc' = "say" /\ spoken < MaxFiller /\ spoken' = spoken + 1
    /\ UNCHANGED <<dpc, diagnosis_result, outcome, diag_ret, stop_event,
                   cancel_req>>
    /\ UNCHANGED <<sessionVars, wfVars, metaVars, server_url, roomVars>>

\* the task's first step: a task cancelled before it ran never runs its body
FillerStart ==
    /\ fpc = "created"
    /\ fpc' = IF cancel_req THEN "cancelled" ELSE LoopTop
    /\ UNCHANGED <<dpc, diagnosis_result, outcome, diag_ret, stop_event,
                   cancel_req, spoken>>
    /\ UNCHANGED <<sessionVars, wfVars, metaVars, server_url, roomVars>>

\* asyncio.sleep(8) ends, by cancellation or not; the stop event is checked
\* again before a phrase is chosen and handed to session.say
FillerWakeSpeaksAnyway ==
    /\ fpc = "sleep8"
    /\ spoken < MaxFiller
    /\ spoken' = spoken + 1
    /\ fpc' = "say"
    /\ UNCHANGED <<dpc, diagnosis_result, outcome, diag_ret, stop_event,
                   cancel_req>>
    /\ UNCHANGED <<sessionVars, wfVars, metaVars, server_url, roomVars>>

\* mutant: the task keeps the phrase it speaks in remembered_info
FillerWakeRemembers ==
    /\ fpc = "sleep8"
    /\ IF cancel_req \/ stop_event
       THEN /\ fpc' = "done"
            /\ UNCHANGED <<spoken, remembered_info>>
       ELSE /\ spoken < MaxFiller
            /\ spoken' = spoken + 1
            /\ fpc' = "say"
            /\ remembered_info' =
                   [k \in DOMAIN remembered_info \cup {"filler"} |->
                       IF k = "filler" THEN StrVal("Analyzing the readings...")
                       ELSE remembered_info[k]]
    /\ UNCHANGED <<dpc, diagnosis_result, outcome, diag_ret, stop_event,
                   cancel_req>>
    /\ UNCHANGED <<agents, active, prev_agent, hist, nextId, everItems,
                   pendingEnter, ret>>
    /\ UNCHANGED <<wfVars, metaVars, server_url, roomVars>>

FillerWake ==
    /\ fpc = "sleep8"
    /\ IF cancel_req \/ stop_event
       THEN /\ fpc' = "done"
            /\ UNCHANGED spoken
       ELSE /\ spoken < MaxFiller
            /\ spoken' = spoken + 1
            /\ fpc' = "say"
    /\ UNCHANGED <<dpc, diagnosis_result, outcome, diag_ret, stop_event,
                   cancel_req>>
    /\ UNCHANGED <<sessionVars, wfVars, metaVars, server_url, roomVars>>

\* mutant: the task ends after its first phrase
FillerSayDoneOnce ==
    /\ fpc = "say"
    /\ fpc' = "done"
    /\ UNCHANGED <<dpc, diagnosis_result, outcome, diag_ret, stop_event,
                   cancel_req, spoken>>
    /\ UNCHANGED <<sessionVars, wfVars, metaVars, server_url, roomVars>>

\* how session.say can end: with the phrase spoken, with an error, or, once the
\* task's cancellation is requested, with the CancelledError or with an error
\* of its own raised in its place
SayEnds == IF cancel_req THEN {"cancelled", "error"} ELSE {"ok", "error"}

\* mutant: the except clause sleeps its 5 seconds whether or not the stop
\* event is set
FillerSayDoneBacksOffAfterStop ==
    /\ fpc = "say"
    /\ \E end \in SayEnds :
          fpc' = CASE end = "cancelled" -> "done"
                   [] end = "error" -> "sleep5"
                   [] end = "ok" -> LoopTop
    /\ UNCHANGED <<dpc, diagnosis_result, outcome, diag_ret, stop_event,
                   cancel_req, spoken>>
    /\ UNCHANGED <<sessionVars, wfVars, metaVars, server_url, roomVars>>

\* session.say ends: a CancelledError breaks the loop; any other error is
\* logged, after which the loop sleeps 5 seconds unless the stop event is set;
\* then, as after a spoken phrase, the loop condition is tested again
FillerSayDone ==
    /\ fpc = "say"
    /\ \E end \in SayEnds :
          fpc' = CASE end = "cancelled" -> "done"
                   [] end = "error" -> IF stop_event THEN LoopTop ELSE "sleep5"
                   [] end = "ok" -> LoopTop
    /\ UNCHANGED <<dpc, diagnosis_result, outcome, diag_ret, stop_event,
                   cancel_req, spoken>>
    /\ UNCHANGED <<sessionVars, wfVars, metaVars, server_url, roomVars>>

\* asyncio.sleep(5) in the except clause ends: a cancellation there is not
\* caught and ends the task
FillerBackoffDone ==
    /\ fpc = "sleep5"
    /\ fpc' = IF cancel_req THEN "cancelled" ELSE LoopTop
    /\ UNCHANGED <<dpc, diagnosis_result, outcome, diag_ret, stop_event,
                   cancel_req, spoken>>
    /\ UNCHANGED <<sessionVars, wfVars, metaVars, server_url, roomVars>>


\* ---------------------------------------------------------- WorkflowAgent
WorkflowIds == {"w1", "w2"}

\* the cache is a dict, which keeps its keys in insertion order: a sequence of
\* [id, name] with no id twice
EmptyCache == <<>>

CacheIds(cache) == {cache[i].id : i \in 1..Len(cache)}

\* cache.get(id, default)
CacheGet(cache, id, default) ==
    IF id \in CacheIds(cache)
    THEN (CHOOSE e \in Range(cache) : e.id = id).name
    ELSE default

\* cache[id] = name: a key already present keeps its place
CachePut(cache, id, name) ==
    IF id \in CacheIds(cache)
    THEN [i \in 1..Len(cache) |->
             IF cache[i].id = id THEN [id |-> id, name |-> name] ELSE cache[i]]
    ELSE Append(cache, [id |-> id, name |-> name])

\* a name as an f-string shows it: the string, or None for a JSON null
NameText(v) == IF v.t = "str" THEN v.s ELSE "None"

\* a step as the backend sent it: an object with a description, an object
\* without one, or a value that is no object
StepKinds == {"desc", "nodesc", "str"}

StepText == "Check the filter."

\* the step lists the backend may send: every list of up to MaxSteps steps
StepLists == UNION {[1..n -> StepKinds] : n \in 0..MaxSteps}

NoWorkflow == [loaded |-> FALSE, id |-> "", name |-> StrVal(""),
               description |-> "", steps |-> <<>>]

\* WorkflowModel.from_json
WorkflowModel(workflow_id, name, steps) ==
    [loaded |-> TRUE, id |-> workflow_id, name |-> name,
     description |-> "Workflow ID: " \o workflow_id, steps |-> steps]

\* str(n) for the numbers the messages show
NumText(n) ==
    IF n < 0 THEN "-" \o <<"1", "2", "3", "4", "5", "6", "7", "8", "9">>[-n]
    ELSE <<"0", "1", "2", "3", "4", "5", "6", "7", "8", "9", "10", "11", "12">>[n + 1]

NoActiveWorkflow ==
    "There is no active workflow. Would you like me to help you find one?"

NoStepsDefined == "The current workflow doesn't have any steps defined."

WorkflowComplete(total_steps) ==
    "You've completed all " \o NumText(total_steps)
        \o " steps in this workflow! Is there anything else you'd like help with?"

AlreadyAtFirst ==
    "You're already at the first step of this workflow. Would you like me to repeat the instructions?"

InvalidStepNumber(total_steps) ==
    "Invalid step number. This workflow has " \o NumText(total_steps)
        \o " steps (1-" \o NumText(total_steps) \o ")."

\* step.get('description', default), for a step that is an object
Description(step, default) == IF step = "desc" THEN StepText ELSE default

NextStepText(step_num, total_steps, step) ==
    "Step " \o NumText(step_num) \o " of " \o NumText(total_steps) \o ":\n\n"
        \o Description(step, "No description available")
        \o "\n\nLet me know when you've completed this step or if you need any clarification."

PreviousStepText(step_num, total_steps, step) ==
    "Going back to Step " \o NumText(step_num) \o " of " \o NumText(total_steps)
        \o ":\n\n" \o Description(step, "No description available")
        \o "\n\nLet me know when you're ready to continue."

JumpStepText(step_number, total_steps, step) ==
    "Step " \o NumText(step_number) \o " of " \o NumText(total_steps) \o ":\n\n"
        \o Description(step, "No description available")
        \o "\n\nLet me know when you've completed this step or if you need help."

CurrentStepText(step_num, total_steps, step) ==
    "Current Step (" \o NumText(step_num) \o " of " \o NumText(total_steps)
        \o "):\n\n" \o Description(step, "No description available")
        \o "\n\nLet me know when you've completed this step or if you need any clarification."

\* the run of next_step calls from index 0 after an operation other than
\* next_step: it starts again when the cursor is at index 0 of a loaded workflow
RunAfter(wf, index) == IF wf.loaded /\ index = 0 THEN 0 ELSE -1

RunCap == MaxSteps + 6

\* WorkflowAgent.next_step; the index moves before the step is read (mutant:
\* the last-step test off by one)
NextStepNoClamp ==
    /\ LET total_steps == Len(current_workflow.steps)
       IN  IF ~current_workflow.loaded
           THEN /\ ret' = Result("next_step", "", None, NoActiveWorkflow)
                /\ UNCHANGED <<current_step_index, nextRun>>
           ELSE IF total_steps = 0
           THEN /\ ret' = Result("next_step", "", None, NoStepsDefined)
                /\ UNCHANGED <<current_step_index, nextRun>>
           ELSE IF current_step_index > total_steps - 1
           THEN /\ ret' = Result("next_step", "", None, WorkflowComplete(total_steps))
                /\ UNCHANGED current_step_index
                /\ nextRun' = IF nextRun \in 0..(RunCap - 1) THEN nextRun + 1 ELSE nextRun
           ELSE /\ current_step_index' = current_step_index + 1
                /\ nextRun' = IF nextRun \in 0..(RunCap - 1) THEN nextRun + 1 ELSE nextRun
                /\ ret' = IF current_step_index + 2 > total_steps
                          THEN Raised("next_step", "", "IndexError")
                          ELSE IF current_workflow.steps[current_step_index + 2] = "str"
                          THEN Raised("next_step", "", "AttributeError")
                          ELSE Result("next_step", "", None,
                                   NextStepText(current_step_index + 2, total_steps,
                                       current_workflow.steps[current_step_index + 2]))
    /\ UNCHANGED <<agents, active, prev_agent, hist, nextId, everItems,
                   pendingEnter, remembered_info>>
    /\ UNCHANGED <<current_workflow, workflows_cache>>
    /\ requests' = <<>>
    /\ UNCHANGED <<diagVars, metaVars, server_url, roomVars>>

NextStep ==
    /\ LET total_steps == Len(current_workflow.steps)
       IN  IF ~current_workflow.loaded
           THEN /\ ret' = Result("next_step", "", None, NoActiveWorkflow)
                /\ UNCHANGED <<current_step_index, nextRun>>
           ELSE IF total_steps = 0
           THEN /\ ret' = Result("next_step", "", None, NoStepsDefined)
                /\ UNCHANGED <<current_step_index, nextRun>>
           ELSE IF current_step_index >= total_steps - 1
           THEN /\ ret' = Result("next_step", "", None, WorkflowComplete(total_steps))
                /\ UNCHANGED current_step_index
                /\ nextRun' = IF nextRun \in 0..(RunCap - 1) THEN nextRun + 1 ELSE nextRun
           ELSE /\ current_step_index' = current_step_index + 1
                /\ nextRun' = IF nextRun \in 0..(RunCap - 1) THEN nextRun + 1 ELSE nextRun
                /\ ret' = IF current_workflow.steps[current_step_index + 2] = "str"
                          THEN Raised("next_step", "", "AttributeError")
                          ELSE Result("next_step", "", None,
                                   NextStepText(current_step_index + 2, total_steps,
                                       current_workflow.steps[current_step_index + 2]))
    /\ UNCHANGED <<agents, active, prev_agent, hist, nextId, everItems,
                   pendingEnter, remembered_info>>
    /\ UNCHANGED <<current_workflow, workflows_cache>>
    /\ requests' = <<>>
    /\ UNCHANGED <<diagVars, metaVars, server_url, roomVars>>


\* what a workflow tool leaves alone outside the WorkflowAgent's own fields
ToolFrame ==
    /\ UNCHANGED <<agents, active, prev_agent, hist, nextId, everItems,
                   pendingEnter>>
    /\ UNCHANGED <<diagVars, server_url, roomVars>>

\* WorkflowAgent.previous_step (mutant: the first-step test lets index 0
\* through, and steps[-1] reads the last step)
PreviousStepNoClamp ==
    /\ LET total_steps == Len(current_workflow.steps)
       IN  IF ~current_workflow.loaded
           THEN /\ ret' = Result("previous_step", "", None, NoActiveWorkflow)
                /\ UNCHANGED current_step_index
           ELSE IF total_steps = 0
           THEN /\ ret' = Result("previous_step", "", None, NoStepsDefined)
                /\ UNCHANGED current_step_index
           ELSE IF current_step_index < 0
           THEN /\ ret' = Result("previous_step", "", None, AlreadyAtFirst)
                /\ UNCHANGED current_step_index
           ELSE LET i == IF current_step_index = 0 THEN total_steps
                         ELSE current_step_index
                IN  /\ current_step_index' = current_step_index - 1
                    /\ ret' = IF current_workflow.steps[i] = "str"
                              THEN Raised("previous_step", "", "AttributeError")
                              ELSE Result("previous_step", "", None,
                                       PreviousStepText(current_step_index, total_steps,
                                           current_workflow.steps[i]))
    /\ nextRun' = RunAfter(current_workflow, current_step_index')
    /\ requests' = <<>>
    /\ UNCHANGED <<current_workflow, workflows_cache, remembered_info>>
    /\ UNCHANGED metaVars
    /\ ToolFrame

\* WorkflowAgent.previous_step
PreviousStep ==
    /\ LET total_steps == Len(current_workflow.steps)
       IN  IF ~current_workflow.loaded
           THEN /\ ret' = Result("previous_step", "", None, NoActiveWorkflow)
                /\ UNCHANGED current_step_index
           ELSE IF total_steps = 0
           THEN /\ ret' = Result("previous_step", "", None, NoStepsDefined)
                /\ UNCHANGED current_step_index
           ELSE IF current_step_index <= 0
           THEN /\ ret' = Result("previous_step", "", None, AlreadyAtFirst)
                /\ UNCHANGED current_step_index
           ELSE /\ current_step_index' = current_step_index - 1
                /\ ret' = IF current_workflow.steps[current_step_index] = "str"
                          THEN Raised("previous_step", "", "AttributeError")
                          ELSE Result("previous_step", "", None,
                                   PreviousStepText(current_step_index, total_steps,
                                       current_workflow.steps[current_step_index]))
    /\ nextRun' = RunAfter(current_workflow, current_step_index')
    /\ requests' = <<>>
    /\ UNCHANGED <<current_workflow, workflows_cache, remembered_info>>
    /\ UNCHANGED metaVars
    /\ ToolFrame

\* the step numbers a caller may ask for
StepNumbers == (-1)..(MaxSteps + 2)

\* WorkflowAgent.jump_to_step (mutant: no upper limit on the step number)
JumpToStepNoUpperCheck(step_number) ==
    /\ LET total_steps == Len(current_workflow.steps)
           target_index == step_number - 1
       IN  IF ~current_workflow.loaded
           THEN /\ ret' = Result("jump_to_step", NumText(step_number), None,
                                 NoActiveWorkflow)
                /\ UNCHANGED current_step_index
           ELSE IF total_steps = 0
           THEN /\ ret' = Result("jump_to_step", NumText(step_number), None,
                                 NoStepsDefined)
                /\ UNCHANGED current_step_index
           ELSE IF target_index < 0
           THEN /\ ret' = Result("jump_to_step", NumText(step_number), None,
                                 InvalidStepNumber(total_steps))
                /\ UNCHANGED current_step_index
           ELSE /\ current_step_index' = target_index
                /\ ret' = IF target_index >= total_steps
                          THEN Raised("jump_to_step", NumText(step_number),
                                      "IndexError")
                          ELSE IF current_workflow.steps[target_index + 1] = "str"
                          THEN Raised("jump_to_step", NumText(step_number),
                                      "AttributeError")
                          ELSE Result("jump_to_step", NumText(step_number), None,
                                   JumpStepText(step_number, total_steps,
                                       current_workflow.steps[target_index + 1]))
    /\ nextRun' = RunAfter(current_workflow, current_step_index')
    /\ requests' = <<>>
    /\ UNCHANGED <<current_workflow, workflows_cache, remembered_info>>
    /\ UNCHANGED metaVars
    /\ ToolFrame

\* WorkflowAgent.jump_to_step (mutant: no test for a workflow without steps)
JumpToStepNoEmptyCheck(step_number) ==
    /\ LET total_steps == Len(current_workflow.steps)
           target_index == step_number - 1
       IN  IF ~current_workflow.loaded
           THEN /\ ret' = Result("jump_to_step", NumText(step_number), None,
                                 NoActiveWorkflow)
                /\ UNCHANGED current_step_index
           ELSE IF target_index < 0 \/ target_index >= total_steps
           THEN /\ ret' = Result("jump_to_step", NumText(step_number), None,
                                 InvalidStepNumber(total_steps))
                /\ UNCHANGED current_step_index
           ELSE /\ current_step_index' = target_index
                /\ ret' = IF current_workflow.steps[target_index + 1] = "str"
                          THEN Raised("jump_to_step", NumText(step_number),
                                      "AttributeError")
                          ELSE Result("jump_to_step", NumText(step_number), None,
                                   JumpStepText(step_number, total_steps,
                                       current_workflow.steps[target_index + 1]))
    /\ nextRun' = RunAfter(current_workflow, current_step_index')
    /\ requests' = <<>>
    /\ UNCHANGED <<current_workflow, workflows_cache, remembered_info>>
    /\ UNCHANGED metaVars
    /\ ToolFrame

\* WorkflowAgent.jump_to_step
JumpToStep(step_number) ==
    /\ LET total_steps == Len(current_workflow.steps)
           target_index == step_number - 1
       IN  IF ~current_workflow.loaded
           THEN /\ ret' = Result("jump_to_step", NumText(step_number), None,
                                 NoActiveWorkflow)
                /\ UNCHANGED current_step_index
           ELSE IF total_steps = 0
           THEN /\ ret' = Result("jump_to_step", NumText(step_number), None,
                                 NoStepsDefined)
                /\ UNCHANGED current_step_index
           ELSE IF target_index < 0 \/ target_index >= total_steps
           THEN /\ ret' = Result("jump_to_step", NumText(step_number), None,
                                 InvalidStepNumber(total_steps))
                /\ UNCHANGED current_step_index
           ELSE /\ current_step_index' = target_index
                /\ ret' = IF current_workflow.steps[target_index + 1] = "str"
                          THEN Raised("jump_to_step", NumText(step_number),
                                      "AttributeError")
                          ELSE Result("jump_to_step", NumText(step_number), None,
                                   JumpStepText(step_number, total_steps,
                                       current_workflow.steps[target_index + 1]))
    /\ nextRun' = RunAfter(current_workflow, current_step_index')
    /\ requests' = <<>>
    /\ UNCHANGED <<current_workflow, workflows_cache, remembered_info>>
    /\ UNCHANGED metaVars
    /\ ToolFrame

\* WorkflowAgent.current_step
CurrentStep ==
    /\ LET total_steps == Len(current_workflow.steps)
       IN  ret' = IF ~current_workflow.loaded
                  THEN Result("current_step", "", None, NoActiveWorkflow)
                  ELSE IF total_steps = 0
                  THEN Result("current_step", "", None, NoStepsDefined)
                  ELSE IF current_workflow.steps[current_step_index + 1] = "str"
                  THEN Raised("current_step", "", "AttributeError")
                  ELSE Result("current_step", "", None,
                           CurrentStepText(current_step_index + 1, total_steps,
                               current_workflow.steps[current_step_index + 1]))
    /\ requests' = <<>>
    /\ UNCHANGED <<current_workflow, current_step_index, workflows_cache,
                   nextRun, remembered_info>>
    /\ UNCHANGED metaVars
    /\ ToolFrame

ConfigIssue ==
    "Sorry, I can't access the workflow database due to a configuration issue."

WorkflowNotFound(workflow_id) ==
    "I couldn't find a workflow with the ID '" \o workflow_id
        \o "' for your context. Would you like to see a list of available workflows instead?"

WorkflowHttpError(code) ==
    "Sorry, I encountered an error retrieving the workflow (Error: "
        \o StatusText(code)
        \o "). Would you like to try again or choose a different workflow?"

WorkflowWentWrong ==
    "Sorry, something went wrong while retrieving the workflow. Would you like to try again or see a list of available workflows?"

UnexpectedFormat ==
    "Sorry, I received an unexpected response format from the workflow database. Please try again later."

FoundWithoutSteps(workflow_name) ==
    "I found the '" \o workflow_name
        \o "' workflow, but it doesn't have any steps defined yet. Would you like to try a different workflow?"

WorkflowLoaded(workflow_name, total_steps, step) ==
    "I've loaded the '" \o workflow_name \o "' workflow.\n\nThis workflow has "
        \o NumText(total_steps) \o " steps. Let's start with the first step:\n\nStep 1: "
        \o Description(step, "No step description available")
        \o "\n\nLet me know when you've completed this step or if you need any clarification."

\* what the GET of /v2/workflows/get may do: answer an error status, fail in
\* transport, answer a body that is no JSON, answer a JSON object or a JSON
\* number, or answer a list of steps
FailureKinds == {"status", "transport", "bad_json", "object", "number"}

GetResponses ==
    {[kind |-> "status", code |-> c, steps |-> <<>>] : c \in StatusCodes}
    \cup {[kind |-> k, code |-> 200, steps |-> <<>>] :
              k \in {"transport", "bad_json", "object", "number"}}
    \cup {[kind |-> "list", code |-> 200, steps |-> st] : st \in StepLists}

\* the request get_workflow made and the answer it got
GetRequest(workflow_id, resp) ==
    [endpoint |-> "/v2/workflows/get", id |-> workflow_id, kind |-> resp.kind,
     code |-> resp.code, steps |-> resp.steps]

\* the body of get_workflow once the server URL is known: whether the cursor
\* is assigned, the workflow it is assigned, and the message returned.  A JSON
\* number fails in len() before the list test; a step that is no object fails
\* in first_step.get after the cursor was assigned.
GetWorkflowResult(workflow_id, cache, resp) ==
    IF resp.kind = "list"
    THEN LET workflow_name ==
                 CacheGet(cache, workflow_id, StrVal("Workflow " \o workflow_id))
             total_steps == Len(resp.steps)
         IN  [assigned |-> TRUE,
              workflow |-> WorkflowModel(workflow_id, workflow_name, resp.steps),
              msg |-> IF total_steps = 0
                      THEN FoundWithoutSteps(NameText(workflow_name))
                      ELSE IF resp.steps[1] = "str"
                      THEN WorkflowWentWrong
                      ELSE WorkflowLoaded(NameText(workflow_name), total_steps,
                                          resp.steps[1])]
    ELSE [assigned |-> FALSE,
          workflow |-> NoWorkflow,
          msg |-> CASE resp.kind = "status" /\ resp.code = 404 ->
                           WorkflowNotFound(workflow_id)
                    [] resp.kind = "status" /\ resp.code # 404 ->
                           WorkflowHttpError(resp.code)
                    [] resp.kind = "object" -> UnexpectedFormat
                    [] resp.kind \in {"transport", "bad_json", "number"} ->
                           WorkflowWentWrong]

\* mutant: a fetched workflow is stored without the index going back to 0
GetWorkflowKeepsIndex(workflow_id, responses) ==
    /\ IF server_url = ""
       THEN /\ ret' = Result("get_workflow", workflow_id, None, ConfigIssue)
            /\ requests' = <<>>
            /\ UNCHANGED <<current_workflow, current_step_index>>
       ELSE \E resp \in responses :
            LET r == GetWorkflowResult(workflow_id, workflows_cache, resp)
            IN  /\ ret' = Result("get_workflow", workflow_id, None, r.msg)
                /\ requests' = <<GetRequest(workflow_id, resp)>>
                /\ current_workflow' =
                       IF r.assigned THEN r.workflow ELSE current_workflow
                /\ UNCHANGED current_step_index
    /\ nextRun' = RunAfter(current_workflow', current_step_index')
    /\ processed' = AfterGetCompanyId
    /\ UNCHANGED <<workflows_cache, remembered_info, job_metadata>>
    /\ ToolFrame

\* WorkflowAgent.get_workflow, the backend answering with one of responses
GetWorkflowFrom(workflow_id, responses) ==
    /\ IF server_url = ""
       THEN /\ ret' = Result("get_workflow", workflow_id, None, ConfigIssue)
            /\ requests' = <<>>
            /\ UNCHANGED <<current_workflow, current_step_index>>
       ELSE \E resp \in responses :
            LET r == GetWorkflowResult(workflow_id, workflows_cache, resp)
            IN  /\ ret' = Result("get_workflow", workflow_id, None, r.msg)
                /\ requests' = <<GetRequest(workflow_id, resp)>>
                /\ current_workflow' =
                       IF r.assigned THEN r.workflow ELSE current_workflow
                /\ current_step_index' =
                       IF r.assigned THEN 0 ELSE current_step_index
    /\ nextRun' = RunAfter(current_workflow', current_step_index')
    /\ processed' = AfterGetCompanyId
    /\ UNCHANGED <<workflows_cache, remembered_info, job_metadata>>
    /\ ToolFrame

GetWorkflow(workflow_id) == GetWorkflowFrom(workflow_id, GetResponses)

\* an entry of the list the backend sends; id and name may be missing, and
\* the name may be null
Entry(id, name, description) ==
    [has_id |-> id # "", id |-> id, has_name |-> name # "",
     name |-> StrVal(name), description |-> description]

NullNameEntry(id) ==
    [has_id |-> TRUE, id |-> id, has_name |-> TRUE, name |-> JsonNull,
     description |-> ""]

ListResponses ==
    { <<>>,
      <<Entry("w1", "Filter Change", "Replace the air filter")>>,
      <<Entry("w1", "Filter Change", ""), Entry("w2", "Filter Check", "")>>,
      <<Entry("", "Orphan", ""), Entry("w2", "", "")>>,
      <<Entry("w1", "Filter Change", ""), NullNameEntry("w2")>> }

\* what the GET of /v2/workflows/list may do: fail before the cache is touched
\* (error status, transport, a body that is no JSON, a JSON number), answer a
\* JSON object none of whose keys contains "id", or answer a list of entries
ListAnswers ==
    {[kind |-> k, data |-> <<>>] : k \in {"error", "object"}}
    \cup {[kind |-> "list", data |-> d] : d \in ListResponses}

\* no request was made
NoAnswer == [kind |-> "none", data |-> <<>>]

ListRequest(resp) ==
    [endpoint |-> "/v2/workflows/list", id |-> "", kind |-> resp.kind,
     code |-> 200, steps |-> <<>>]

\* {w['id']: w.get('name', f"Workflow {w['id']}") for w in workflows_data if 'id' in w}
RECURSIVE CacheOf(_)
CacheOf(workflows_data) ==
    IF Len(workflows_data) = 0 THEN EmptyCache
    ELSE LET n == Len(workflows_data)
             w == workflows_data[n]
             rest == CacheOf(SubSeq(workflows_data, 1, n - 1))
         IN  IF w.has_id
             THEN CachePut(rest, w.id,
                      IF w.has_name THEN w.name ELSE StrVal("Workflow " \o w.id))
             ELSE rest

NoWorkflowsAvailable ==
    "I don't have any workflows available right now. Would you like me to create a custom workflow for you instead?"

ListFailed ==
    "Sorry, I couldn't retrieve the list of workflows. Would you like me to try again or assist you with something else?"

\* one line of the list shown to the user; the bullet is written "*"
ListLine(w) ==
    LET name == IF w.has_name THEN NameText(w.name)
                ELSE "Workflow " \o (IF w.has_id THEN w.id ELSE "Unknown")
    IN  IF w.description # "" THEN "* " \o name \o " - " \o w.description
        ELSE "* " \o name

RECURSIVE JoinLines(_)
JoinLines(ws) ==
    IF Len(ws) = 0 THEN ""
    ELSE IF Len(ws) = 1 THEN ListLine(ws[1])
    ELSE ListLine(ws[1]) \o "\n" \o JoinLines(Tail(ws))

WorkflowListText(workflows_data) ==
    "Here are the available workflows I can help you with:\n\n"
        \o JoinLines(workflows_data) \o "\n\nWhich one would you like to use?"

\* the body of list_workflows once the server URL is known: the cache it
\* leaves and the message returned.  Iterating a JSON object yields its keys:
\* the comprehension keeps none and the cache is assigned empty before w.get
\* fails on the first key.
ListWorkflowsResult(cache, resp) ==
    CASE resp.kind = "error" -> [cache |-> cache, msg |-> ListFailed]
      [] resp.kind = "object" -> [cache |-> EmptyCache, msg |-> ListFailed]
      [] resp.kind = "list" ->
            [cache |-> CacheOf(resp.data),
             msg |-> IF Len(resp.data) = 0 THEN NoWorkflowsAvailable
                     ELSE WorkflowListText(resp.data)]

\* WorkflowAgent.list_workflows
ListWorkflows ==
    /\ IF server_url = ""
       THEN /\ ret' = Result("list_workflows", "", None, ConfigIssue)
            /\ requests' = <<>>
            /\ UNCHANGED workflows_cache
       ELSE \E resp \in ListAnswers :
            LET r == ListWorkflowsResult(workflows_cache, resp)
            IN  /\ workflows_cache' = r.cache
                /\ ret' = Result("list_workflows", "", None, r.msg)
                /\ requests' = <<ListRequest(resp)>>
    /\ processed' = AfterGetCompanyId
    /\ UNCHANGED <<current_workflow, current_step_index, nextRun, remembered_info,
                   job_metadata>>
    /\ ToolFrame


\* str.lower(), letter by letter
UpperLetters ==
    <<"A", "B", "C", "D", "E", "F", "G", "H", "I", "J", "K", "L", "M",
      "N", "O", "P", "Q", "R", "S", "T", "U", "V", "W", "X", "Y", "Z">>

LowerLetters ==
    <<"a", "b", "c", "d", "e", "f", "g", "h", "i", "j", "k", "l", "m",
      "n", "o", "p", "q", "r", "s", "t", "u", "v", "w", "x", "y", "z">>

LowerChar(c) ==
    IF \E i \in 1..Len(UpperLetters) : UpperLetters[i] = c
    THEN LowerLetters[CHOOSE i \in 1..Len(UpperLetters) : UpperLetters[i] = c]
    ELSE c

RECURSIVE Lower(_)
Lower(str) ==
    IF Len(str) = 0 THEN ""
    ELSE LowerChar(SubSeq(str, 1, 1)) \o Lower(SubSeq(str, 2, Len(str)))

\* needle in hay, for strings
Contains(needle, hay) ==
    \E i \in 0..(Len(hay) - Len(needle)) :
        SubSeq(hay, i + 1, i + Len(needle)) = needle

\* the names a caller may search for
WorkflowNames == {"filter", "Filter Check", "pump"}

NoWorkflowsInSystem ==
    "I couldn't find any workflows in the system. Would you like me to assist you with something else?"

NoMatch(workflow_name) ==
    "I couldn't find any workflows matching '" \o workflow_name
        \o "'. Would you like to see a list of all available workflows instead?"

MatchLine(e) == "* " \o e.name.s \o " (ID: " \o e.id \o ")"

RECURSIVE JoinMatches(_)
JoinMatches(es) ==
    IF Len(es) = 0 THEN ""
    ELSE IF Len(es) = 1 THEN MatchLine(es[1])
    ELSE MatchLine(es[1]) \o "\n" \o JoinMatches(Tail(es))

ManyMatches(workflow_name, matching_workflows) ==
    "I found " \o NumText(Len(matching_workflows)) \o " workflows matching '"
        \o workflow_name \o "':\n\n" \o JoinMatches(matching_workflows)
        \o "\n\nWhich one would you like to use? Please specify the name or ID."

\* the entries of the cache whose name contains the name asked for, letter
\* case aside, in the order of the cache
Matching(cache, workflow_name) ==
    SelectSeq(cache, LAMBDA e : Contains(Lower(workflow_name), Lower(e.name.s)))

\* WorkflowAgent.find_workflow_by_name: list_workflows runs first when the
\* cache is empty; name.lower() fails on a name that is no string; one match
\* goes through get_workflow
FindWorkflowByNameFrom(workflow_name, responses) ==
    LET fetched == workflows_cache = EmptyCache /\ server_url # ""
    IN  \E lresp \in IF fetched THEN ListAnswers ELSE {NoAnswer} :
        \E cache \in {IF fetched
                      THEN ListWorkflowsResult(workflows_cache, lresp).cache
                      ELSE workflows_cache} :
        \E matching_workflows \in
               {IF \A e \in Range(cache) : e.name.t = "str"
                THEN Matching(cache, workflow_name) ELSE <<>>} :
        LET listed == IF fetched THEN <<ListRequest(lresp)>> ELSE <<>>
            named == \A e \in Range(cache) : e.name.t = "str"
            Returns(msg) ==
                /\ ret' = Result("find_workflow_by_name", workflow_name, None, msg)
                /\ requests' = listed
                /\ UNCHANGED <<current_workflow, current_step_index>>
        IN  /\ workflows_cache' = cache
            /\ IF cache = EmptyCache
               THEN Returns(NoWorkflowsInSystem)
               ELSE IF ~named
               THEN /\ ret' = Raised("find_workflow_by_name", workflow_name,
                                     "AttributeError")
                    /\ requests' = listed
                    /\ UNCHANGED <<current_workflow, current_step_index>>
               ELSE IF Len(matching_workflows) = 1
               THEN IF server_url = ""
                    THEN Returns(ConfigIssue)
                    ELSE \E gresp \in responses :
                         LET workflow_id == matching_workflows[1].id
                             r == GetWorkflowResult(workflow_id, cache, gresp)
                         IN  /\ ret' = Result("find_workflow_by_name",
                                              workflow_name, None, r.msg)
                             /\ requests' =
                                    Append(listed, GetRequest(workflow_id, gresp))
                             /\ current_workflow' =
                                    IF r.assigned THEN r.workflow
                                    ELSE current_workflow
                             /\ current_step_index' =
                                    IF r.assigned THEN 0 ELSE current_step_index
               ELSE IF Len(matching_workflows) > 1
               THEN Returns(ManyMatches(workflow_name, matching_workflows))
               ELSE Returns(NoMatch(workflow_name))
            /\ nextRun' = RunAfter(current_workflow', current_step_index')
            /\ processed' = AfterGetCompanyId
            /\ UNCHANGED <<remembered_info, job_metadata>>
            /\ ToolFrame

FindWorkflowByName(workflow_name) ==
    FindWorkflowByNameFrom(workflow_name, GetResponses)


\* ------------------------------------------- MainAgent memory, NoteAgent
\* what a memory tool leaves alone
MemoryFrame ==
    /\ UNCHANGED <<agents, active, prev_agent, hist, nextId, everItems,
                   pendingEnter>>
    /\ UNCHANGED <<diagVars, wfVars, metaVars, server_url, roomVars>>

\* remembered_info with key set to v
Store(info, key, v) ==
    [k \in DOMAIN info \cup {key} |-> IF k = key THEN v ELSE info[k]]

\* MainAgent.remember_info
RememberInfo(key, value) ==
    /\ remembered_info' = Store(remembered_info, key, StrVal(value))
    /\ ret' = Result("remember_info", key, None,
                  "Okay, I've remembered that " \o key \o " is " \o value \o ".")
    /\ MemoryFrame

\* str() of a list of strings, as an f-string shows it
RECURSIVE ListItemsText(_)
ListItemsText(l) ==
    IF Len(l) = 0 THEN ""
    ELSE IF Len(l) = 1 THEN "'" \o l[1] \o "'"
    ELSE "'" \o l[1] \o "', " \o ListItemsText(Tail(l))

ValueText(v) == IF v.t = "str" THEN v.s ELSE "[" \o ListItemsText(v.l) \o "]"

\* the truth value Python gives a stored value
Truthy(v) == IF v.t = "str" THEN v.s # "" ELSE Len(v.l) > 0

NothingRemembered(key) ==
    "I don't seem to have anything remembered for '" \o key
        \o "'. Could you remind me?"

\* MainAgent.recall_info
RecallInfo(key) ==
    /\ ret' = Result("recall_info", key, None,
                  IF key \in DOMAIN remembered_info /\ Truthy(remembered_info[key])
                  THEN "You asked me to remember that " \o key \o " is "
                           \o ValueText(remembered_info[key]) \o "."
                  ELSE NothingRemembered(key))
    /\ UNCHANGED remembered_info
    /\ MemoryFrame

\* NoteAgent.add_note: the notes list is created when the key is missing, then
\* .append is called on whatever the key holds
AddNote(note_content) ==
    LET info == IF "notes" \in DOMAIN remembered_info THEN remembered_info
                ELSE Store(remembered_info, "notes", ListVal(<<>>))
    IN  /\ IF info["notes"].t = "list"
           THEN /\ Len(info["notes"].l) < MaxNotes
                /\ remembered_info' =
                       Store(info, "notes", ListVal(Append(info["notes"].l, note_content)))
                /\ ret' = Result("add_note", note_content, None,
                              "Okay, I've added the note: '" \o note_content \o "'")
           ELSE /\ remembered_info' = info
                /\ ret' = Raised("add_note", note_content, "AttributeError")
        /\ MemoryFrame

\* MainAgent.get_error_codes
GetErrorCodes(error_code) ==
    /\ ret' = Result("get_error_codes", error_code, None,
                  "Looking up information for error code " \o error_code
                      \o ". (Implementation pending)")
    /\ UNCHANGED remembered_info
    /\ MemoryFrame

ErrorCodes == {"E4"}

\* ------------------------------------------------------- specifications
\* entrypoint: the registry is built, the session starts with MainAgent
Init ==
    /\ agents = Registry
    /\ active = Main
    /\ prev_agent = None
    /\ hist = [a \in Instances |-> <<>>]
    /\ nextId = 1
    /\ everItems = {}
    /\ pendingEnter = TRUE
    /\ remembered_info = EmptyInfo
    /\ ret = Result("start", "", Main, "")
    /\ dpc = "idle"
    /\ diagnosis_result = StrVal("")
    /\ outcome = "none"
    /\ diag_ret = NotReturned
    /\ fpc = "none"
    /\ stop_event = FALSE
    /\ cancel_req = FALSE
    /\ spoken = 0
    /\ server_url \in ServerUrls
    /\ current_workflow = NoWorkflow
    /\ current_step_index = 0
    /\ workflows_cache = EmptyCache
    /\ nextRun = -1
    /\ requests = <<>>
    /\ job_metadata = PyNone
    /\ processed = PyNone
    /\ room = [available |-> TRUE, participants |-> <<>>]
    /\ current_room = TRUE
    /\ ended = FALSE

\* handoffs asked for by name, registered or not
TransferCall ==
    /\ ~pendingEnter
    /\ \E name \in TransferNames : TransferToAgent(name)

NextHandoff == OnEnter \/ Converse \/ TransferCall

SpecHandoff == Init /\ [][NextHandoff]_vars

\* the session as the tools drive it: each specialist offers its own tools and
\* to_main, inherited from BaseAgent
ToMain == ~pendingEnter /\ TransferToAgent("main")

ToVisualData == active = Main /\ ~pendingEnter /\ TransferToAgent("visual")

ToWorkflow == active = Main /\ ~pendingEnter /\ TransferToAgent("workflow")

ToNote == active = Main /\ ~pendingEnter /\ TransferToAgent("note")

MainTools ==
    /\ active = Main
    /\ ~pendingEnter
    /\ \/ \E key \in Keys : \E value \in Values : RememberInfo(key, value)
       \/ \E key \in Keys : RecallInfo(key)
       \/ \E error_code \in ErrorCodes : GetErrorCodes(error_code)

NoteTools ==
    /\ active = Note
    /\ ~pendingEnter
    /\ \E note_content \in NoteContents : AddNote(note_content)

\* on_enter in the session the tools drive, where only activations add items
Activate == OnEnterWithin(MaxEnters)

Next ==
    \/ Activate
    \/ ToMain \/ ToVisualData \/ ToWorkflow \/ ToNote
    \/ MainTools
    \/ NoteTools

Spec == Init /\ [][Next]_vars

\* one to_diagnosis call and its filler task
NextDiag ==
    \/ DiagStart \/ DiagRpcDone \/ DiagHttpDone \/ DiagReturn
    \/ FillerStart \/ FillerWake \/ FillerSayDone \/ FillerBackoffDone

SpecDiag == Init /\ [][NextDiag]_vars

\* the session with its one conversation path and the filler task beside it:
\* tools and handoffs run one at a time, a to_diagnosis call among them, and
\* the filler task takes its steps in between and after the call has returned
DiagnosisRoom ==
    [available |-> TRUE,
     participants |-> <<Participant("tech-phone", "android")>>]

PathFree == ~pendingEnter /\ dpc \in {"idle", "returned"}

\* mutant: to_diagnosis hands the conversation to the Diagnosis specialist
ToDiagnosisHandsOff == active = Main /\ PathFree /\ TransferToAgent("diagnosis")

\* to_diagnosis, a tool of MainAgent: it returns a string, not a specialist
ToDiagnosis == active = Main /\ PathFree /\ DiagStartIn({DiagnosisRoom})

NextSession ==
    \/ (dpc \in {"idle", "returned"} /\ Activate)
    \/ (PathFree /\ ToNote)
    \/ (PathFree /\ active = Main
           /\ \E key \in Keys : \E value \in Values : RememberInfo(key, value))
    \/ (PathFree /\ NoteTools)
    \/ ToDiagnosis
    \/ DiagRpcDone \/ DiagHttpDone \/ DiagReturn
    \/ FillerStart \/ FillerWake \/ FillerSayDone \/ FillerBackoffDone

SpecSession == Init /\ [][NextSession]_vars

\* every handoff tool and to_diagnosis: the handoffs run while no to_diagnosis
\* call is pending, the filler task takes its steps whenever it can
NextRouting ==
    \/ (dpc \in {"idle", "returned"} /\ Activate)
    \/ (PathFree /\ ToMain)
    \/ (PathFree /\ ToVisualData)
    \/ (PathFree /\ ToWorkflow)
    \/ (PathFree /\ ToNote)
    \/ ToDiagnosis
    \/ DiagRpcDone \/ DiagHttpDone \/ DiagReturn
    \/ FillerStart \/ FillerWake \/ FillerSayDone \/ FillerBackoffDone

SpecRouting == Init /\ [][NextRouting]_vars

\* one to_diagnosis call, its filler task, and the end of the session at any
\* moment
NextShutdown == NextDiag \/ SessionEnd

SpecShutdown == Init /\ [][NextShutdown]_vars

\* the truncation of a chat context, on every context and with every setting
NextTruncate == TruncateCall

SpecTruncate == Init /\ [][NextTruncate]_vars

\* the same, with the event loop running the filler task whenever it can run:
\* a sleep ends, session.say ends, a cancellation is delivered
SpecDiagLive ==
    /\ SpecDiag
    /\ WF_vars(FillerStart)
    /\ WF_vars(FillerWake)
    /\ WF_vars(FillerSayDone)
    /\ WF_vars(FillerBackoffDone)

\* the step cursor: a workflow is fetched and its steps are walked, in any
\* order and with any arguments
NextWorkflow ==
    \/ \E workflow_id \in WorkflowIds : GetWorkflow(workflow_id)
    \/ NextStep
    \/ PreviousStep
    \/ \E step_number \in StepNumbers : JumpToStep(step_number)
    \/ CurrentStep

SpecWorkflow == Init /\ [][NextWorkflow]_vars

\* the workflow lookup: the list is fetched, a workflow is looked up by name,
\* and the cursor is moved on
NextLookup ==
    \/ ListWorkflows
    \/ \E workflow_name \in WorkflowNames : FindWorkflowByName(workflow_name)
    \/ NextStep

SpecLookup == Init /\ [][NextLookup]_vars

\* the answers of GET /v2/workflows/get that differ for the cursor: every
\* failure, and lists of every length whose steps are all objects or all not
CursorStepLists ==
    {[i \in 1..n |-> k] : n \in 0..MaxSteps, k \in {"desc", "str"}}

CursorResponses ==
    {r \in GetResponses : r.kind = "list" => r.steps \in CursorStepLists}

\* every tool of the Workflow specialist, called in any order and with any
\* arguments
NextCursor ==
    \/ ListWorkflows
    \/ \E workflow_id \in WorkflowIds :
          GetWorkflowFrom(workflow_id, CursorResponses)
    \/ \E workflow_name \in WorkflowNames :
          FindWorkflowByNameFrom(workflow_name, CursorResponses)
    \/ NextStep
    \/ PreviousStep
    \/ \E step_number \in StepNumbers : JumpToStep(step_number)
    \/ CurrentStep

SpecCursor == Init /\ [][NextCursor]_vars

\* the Workflow specialist in the session: it is entered from Main and left
\* through to_main, and its tools run while it is the active specialist
ResumeResponses ==
    {r \in GetResponses :
        \/ r.kind = "status" /\ r.code = 500
        \/ r.kind = "list" /\ r.steps = [i \in 1..MaxSteps |-> "desc"]}

WorkflowTools ==
    /\ active = Workflow
    /\ ~pendingEnter
    /\ \/ ListWorkflows
       \/ \E workflow_id \in WorkflowIds :
             GetWorkflowFrom(workflow_id, ResumeResponses)
       \/ NextStep

\* on_enter as often as it takes to enter the Workflow specialist twice
Resume == OnEnterWithin(MaxEnters + 1)

NextResume == Resume \/ ToMain \/ ToWorkflow \/ WorkflowTools

SpecResume == Init /\ [][NextResume]_vars

\* the session metadata: stored once, then read through the helpers
NextMetadata ==
    \/ StoreJobMetadata
    \/ ReadProcessedMetadata
    \/ \E field_name \in MetadataFields : GetMetadataField(field_name)
    \/ GetCompanyId
    \/ GetUserName

SpecMetadata == Init /\ [][NextMetadata]_vars

\* ------------------------------------------------------------ claims C1-C5
NoDuplicateIds(items) ==
    \A i, j \in 1..Len(items) : items[i].id = items[j].id => i = j

\* C1: after on_enter completes, whatever handoffs came before (back and forth
\* between the same two specialists included), the entering specialist's
\* history holds no two items with the same identity.
C1_NoDuplicateIdentities ==
    ret.op = "on_enter" => NoDuplicateIds(hist[active])

\* Main was re-entered from Workflow, which had itself entered from Main: the
\* previous history starts with items Main already had
C1_Witness ==
    /\ ret.op = "on_enter"
    /\ active = Main
    /\ prev_agent = Workflow
    /\ Len(hist[Workflow]) >= 2
    /\ Len(hist[Main]) > Len(hist[Workflow])
    /\ hist[Workflow][1] = hist[Main][1]
    /\ hist[Workflow][2].agent = Workflow

\* C2: a transfer to a name that is no key of the registry does not raise; it
\* returns the active specialist, unchanged, with a non-empty apology, and
\* leaves prev_agent and the registry as they were.
C2_UnregisteredTransferIsTotal ==
    [][(ret'.op = "transfer" /\ ret'.arg \notin DOMAIN agents) =>
          /\ ~ret'.raised
          /\ ret'.agent = active
          /\ active' = active
          /\ ret'.msg # ""
          /\ prev_agent' = prev_agent
          /\ agents' = agents]_vars

C2_Witness ==
    /\ ret.op = "transfer"
    /\ ret.arg = "billing"
    /\ ret.agent = Workflow
    /\ prev_agent = Main

\* C3: in every state exactly one specialist is active and it is an instance
\* of the registry, which holds the five specialists; the session starts with
\* Main active and nothing remembered.
C3_OneRegisteredSpecialistActive ==
    /\ DOMAIN agents = {"main", "visual", "diagnosis", "workflow", "note"}
    /\ active \in {agents[n] : n \in DOMAIN agents}
    /\ Cardinality({a \in Instances : a = active}) = 1
    /\ ret.op = "start" => (active = Main /\ DOMAIN remembered_info = {})

\* a failed transfer following a successful one
C3_Witness ==
    /\ ret.op = "transfer"
    /\ ret.arg = ""
    /\ active = Note
    /\ prev_agent = Main

\* C4: a successful transfer records the specialist that was active as
\* prev_agent and makes the named target active; prev_agent changes in no
\* other step.
C4_TransferRecordsPrevious ==
    [][/\ (ret'.op = "transfer" /\ ret'.arg \in DOMAIN agents) =>
              (prev_agent' = active /\ active' = agents[ret'.arg])
       /\ prev_agent' # prev_agent =>
              (ret'.op = "transfer" /\ ret'.arg \in DOMAIN agents)]_vars

\* a second handoff: the previous specialist is overwritten
C4_Witness ==
    /\ ret.op = "transfer"
    /\ ret.arg = "main"
    /\ active = Main
    /\ prev_agent = Visual
    /\ Len(hist[Visual]) > 0

\* C5: once on_enter of the active specialist has run, its history holds
\* every item that ever was in any specialist's history.
C5_NoContextLost ==
    ~pendingEnter => \A it \in everItems : it \in Range(hist[active])

\* Main -> Workflow -> Main -> Note, with an item created while Workflow was
\* active
C5_Witness ==
    /\ ~pendingEnter
    /\ active = Note
    /\ prev_agent = Main
    /\ \E i, j \in 1..Len(hist[Workflow]) :
          /\ j < i
          /\ hist[Workflow][j].agent = Workflow
          /\ hist[Workflow][i].role = "user"
          /\ hist[Workflow][i] \in Range(hist[Main])

\* ------------------------------------------------------------ claims C6-C8
\* C6: to_diagnosis always ends by returning a single string, the diagnosis
\* text or an apology, and raises nothing, whatever the room, the device, the
\* RPC, the configuration and the backend do.
C6_AlwaysReturnsAString ==
    dpc = "returned" => (~diag_ret.raised /\ diag_ret.value.t = "str")

\* C7: on every path the filler task is told to stop (stop event set, task
\* cancelled) before to_diagnosis returns, the return does not wait for the
\* task to finish, and a task still running changes neither the result nor
\* the normal return.
C7_FillerStoppedOnEveryPath ==
    /\ dpc \in {"wait", "returned"} => (stop_event /\ cancel_req)
    /\ dpc = "wait" => ENABLED DiagReturn
    /\ dpc = "returned" =>
          (~diag_ret.raised /\ diag_ret.value = diagnosis_result)

\* the call has returned a diagnosis while the filler task is still speaking
C7_Witness ==
    /\ dpc = "returned"
    /\ outcome = "http_ok"
    /\ fpc = "say"
    /\ spoken >= 1
    /\ diag_ret.value.s \in DiagnosisTexts

RpcFailures == {"rpc_error_named", "rpc_error_other"}

\* C8: when the device RPC fails by timing out, to_diagnosis returns an
\* apology string, and in every interleaving with the filler task no phrase
\* is spoken once it has returned.
C8_NoFillerAfterRpcTimeout ==
    /\ [](dpc = "returned" /\ outcome \in RpcFailures =>
            /\ ~diag_ret.raised
            /\ diag_ret.value.t = "str"
            /\ diag_ret.value.s \in Apologies)
    /\ [][(dpc = "returned" /\ outcome \in RpcFailures) =>
            spoken' = spoken]_vars

\* the RPC failed after a phrase was spoken and the call returned on the
\* timeout of its wait, the filler task still being in its sleep
C8_Witness ==
    /\ dpc = "returned"
    /\ outcome \in RpcFailures
    /\ spoken >= 1
    /\ spoken < MaxFiller
    /\ fpc = "sleep8"

\* --------------------------------------------------------- claims C9, C10
\* C9: whatever tools are invoked, in whatever order and with whatever
\* arguments, every invocation returns a result and none raises.
C9_NoToolRaises == ~ret.raised

Min(a, b) == IF a <= b THEN a ELSE b

\* C10: on a loaded workflow of N >= 1 steps, k next_step calls in a row from
\* index 0 leave the index at min(k, N-1), so N+5 calls leave it at N-1; and a
\* call made at index N-1 returns the workflow-complete message and leaves
\* the index alone.
C10_NextStepClamps ==
    /\ [](current_workflow.loaded /\ Len(current_workflow.steps) >= 1
              /\ nextRun >= 0 =>
            current_step_index = Min(nextRun, Len(current_workflow.steps) - 1))
    /\ [][(/\ ret'.op = "next_step"
           /\ current_workflow.loaded
           /\ Len(current_workflow.steps) >= 1
           /\ current_step_index = Len(current_workflow.steps) - 1) =>
            /\ current_step_index' = current_step_index
            /\ ~ret'.raised
            /\ ret'.msg = WorkflowComplete(Len(current_workflow.steps))]_vars

\* N+5 next_step calls were made from index 0 on the longest workflow
C10_Witness ==
    /\ current_workflow.loaded
    /\ Len(current_workflow.steps) = MaxSteps
    /\ nextRun = MaxSteps + 5
    /\ ret.op = "next_step"
    /\ ret.msg = WorkflowComplete(MaxSteps)
    /\ current_step_index = MaxSteps - 1

\* ------------------------------------------------------- claims C11-C13
\* C11: on a loaded workflow of N >= 1 steps, previous_step takes exactly one
\* off current_step_index when the index is above 0; at index 0 it leaves the
\* index at 0 and returns the already-at-first-step message, however often it
\* is called.
C11_PreviousStepClamps ==
    [][(/\ ret'.op = "previous_step"
        /\ current_workflow.loaded
        /\ Len(current_workflow.steps) >= 1) =>
          IF current_step_index > 0
          THEN current_step_index' = current_step_index - 1
          ELSE /\ current_step_index = 0
               /\ current_step_index' = 0
               /\ ~ret'.raised
               /\ ret'.msg = AlreadyAtFirst]_vars

\* previous_step was called at index 0 of the longest workflow
C11_Witness ==
    /\ ret.op = "previous_step"
    /\ ret.msg = AlreadyAtFirst
    /\ current_workflow.loaded
    /\ Len(current_workflow.steps) = MaxSteps
    /\ current_step_index = 0

\* C12: on a loaded workflow of N >= 1 steps, jump_to_step(n) with n <= 0 or
\* n >= N + 1 returns the invalid-step-number message and leaves
\* current_step_index as it was.
C12_JumpOutOfRangeRejected ==
    [][(/\ ret'.op = "jump_to_step"
        /\ current_workflow.loaded
        /\ Len(current_workflow.steps) >= 1
        /\ \E n \in StepNumbers :
              /\ ret'.arg = NumText(n)
              /\ (n <= 0 \/ n >= Len(current_workflow.steps) + 1)) =>
          /\ ~ret'.raised
          /\ ret'.msg = InvalidStepNumber(Len(current_workflow.steps))
          /\ current_step_index' = current_step_index]_vars

\* jump_to_step(N + 1) was refused while the cursor stood on the last step
C12_Witness ==
    /\ ret.op = "jump_to_step"
    /\ ret.arg = NumText(MaxSteps + 1)
    /\ ret.msg = InvalidStepNumber(MaxSteps)
    /\ current_workflow.loaded
    /\ Len(current_workflow.steps) = MaxSteps
    /\ current_step_index = MaxSteps - 1

NavigationOps == {"next_step", "previous_step", "jump_to_step", "current_step"}

\* C13: when the loaded workflow has no steps, next_step, previous_step,
\* jump_to_step(n) for every n and current_step each return the
\* no-steps-defined message and leave current_step_index as it was.
C13_NoStepsIsFixed ==
    [][(/\ ret'.op \in NavigationOps
        /\ current_workflow.loaded
        /\ Len(current_workflow.steps) = 0) =>
          /\ ~ret'.raised
          /\ ret'.msg = NoStepsDefined
          /\ current_step_index' = current_step_index]_vars

\* jump_to_step(1) was called on a workflow without steps
C13_Witness ==
    /\ ret.op = "jump_to_step"
    /\ ret.arg = NumText(1)
    /\ ret.msg = NoStepsDefined
    /\ current_workflow.loaded
    /\ Len(current_workflow.steps) = 0

\* ------------------------------------------------------- claims C14-C16
\* the messages by which get_workflow reports that it failed
GetFailureMessages(workflow_id) ==
    {ConfigIssue, WorkflowNotFound(workflow_id), WorkflowWentWrong,
     UnexpectedFormat}
    \cup {WorkflowHttpError(c) : c \in StatusCodes}

\* C14: when get_workflow succeeds it replaces current_workflow by the
\* workflow fetched and sets current_step_index to 0, whatever the index was;
\* when it fails (missing configuration, not found, other HTTP error,
\* transport error, malformed response) it leaves current_workflow and
\* current_step_index as they were.
C14_GetWorkflowAllOrNothing ==
    [][ret'.op = "get_workflow" =>
          /\ ~ret'.raised
          /\ IF ret'.msg \in GetFailureMessages(ret'.arg)
             THEN /\ current_workflow' = current_workflow
                  /\ current_step_index' = current_step_index
             ELSE /\ Len(requests') = 1
                  /\ current_workflow'.loaded
                  /\ current_workflow'.id = ret'.arg
                  /\ current_workflow'.steps = requests'[1].steps
                  /\ current_step_index' = 0]_vars

GetRequests(reqs) == SelectSeq(reqs, LAMBDA q : q.endpoint = "/v2/workflows/get")

\* the response a recorded request was answered with
ResponseOf(q) == [kind |-> q.kind, code |-> q.code, steps |-> q.steps]

\* C15: find_workflow_by_name resolves the name against the cached names.
\* With no match it returns a not-found message, fetches no workflow and
\* leaves the cursor alone; with one match its result and the cursor are
\* those of get_workflow on the matching id; with several matches it returns
\* a list naming every match, fetches no workflow and leaves the cursor alone.
C15_FindResolvesByName ==
    [][ret'.op = "find_workflow_by_name" =>
          LET cache == workflows_cache'
              matches ==
                  SelectSeq(cache, LAMBDA e :
                      /\ e.name.t = "str"
                      /\ Contains(Lower(ret'.arg), Lower(e.name.s)))
              gets == GetRequests(requests')
              CursorKept == /\ current_workflow' = current_workflow
                            /\ current_step_index' = current_step_index
          IN  /\ ~ret'.raised
              /\ Len(matches) = 0 =>
                    /\ ret'.msg \in {NoMatch(ret'.arg), NoWorkflowsInSystem}
                    /\ gets = <<>>
                    /\ CursorKept
              /\ Len(matches) = 1 =>
                    /\ Len(gets) = 1
                    /\ gets[1].id = matches[1].id
                    /\ LET r == GetWorkflowResult(matches[1].id, cache,
                                                  ResponseOf(gets[1]))
                       IN  /\ ret'.msg = r.msg
                           /\ IF r.assigned
                              THEN /\ current_workflow' = r.workflow
                                   /\ current_step_index' = 0
                              ELSE CursorKept
              /\ Len(matches) > 1 =>
                    /\ \A i \in 1..Len(cache) :
                          Contains("(ID: " \o cache[i].id \o ")", ret'.msg)
                              <=> cache[i] \in Range(matches)
                    /\ \A e \in Range(matches) : Contains(e.name.s, ret'.msg)
                    /\ gets = <<>>
                    /\ CursorKept]_vars

\* the category of a failed fetch
FailureCategory(q) ==
    CASE q.kind = "status" /\ q.code = 404 -> "not_found"
      [] q.kind = "status" /\ q.code # 404 -> "http_error"
      [] q.kind = "transport" -> "transport"
      [] q.kind \in {"bad_json", "object", "number"} -> "malformed"

\* the messages get_workflow gives for the failures of one category
MessagesOf(category, workflow_id) ==
    {GetWorkflowResult(workflow_id, EmptyCache, resp).msg :
        resp \in {x \in GetResponses :
                     /\ x.kind \in FailureKinds
                     /\ FailureCategory(x) = category}}

\* C16: get_workflow never raises, and the message it gives for a failure
\* of one category (not found, other HTTP error status, transport error,
\* malformed response) is given for no failure of another category.
C16_FailureMessagesDistinct ==
    (ret.op = "get_workflow" /\ Len(requests) = 1
         /\ requests[1].kind \in FailureKinds) =>
        /\ ~ret.raised
        /\ \A category \in {"not_found", "http_error", "transport", "malformed"} :
              category # FailureCategory(requests[1]) =>
                  ret.msg \notin MessagesOf(category, ret.arg)

\* ------------------------------------------------------- claims C17-C18
\* C17: when job_metadata is a JSON string literal whose content is the JSON
\* text of an object, processed_metadata yields that object, decoded by a
\* second parse of the string the first parse gave.
C17_DoubleEncodedIsDecoded ==
    (ret.op = "processed_metadata" /\ job_metadata.t = "str") =>
        LET first == JsonLoads(job_metadata.s)
        IN  (first.ok /\ first.v.t = "str") =>
                LET inner == JsonLoads(first.v.s)
                IN  (inner.ok /\ inner.v.t = "dict") => ret.msg = inner.v

\* a JSON text of an object, as json.dumps writes it
PlainObject(str) ==
    StartsWith(str, "{") /\ JsonLoads(str).ok /\ JsonLoads(str).v.t = "dict"

NotesOf(info) == IF "notes" \in DOMAIN info THEN info["notes"].l ELSE <<>>

IsPrefix(a, b) == Len(a) <= Len(b) /\ SubSeq(b, 1, Len(a)) = a

\* C19: the notes are append-only: whatever add_note and remember_info calls
\* are made, with whatever keys, the key notes only ever holds a list, the
\* notes before a step are a prefix of the notes after it, and add_note(c)
\* puts exactly c at the end.
C19_NotesAppendOnly ==
    [][/\ "notes" \in DOMAIN remembered_info' =>
              remembered_info'["notes"].t = "list"
       /\ IsPrefix(NotesOf(remembered_info), NotesOf(remembered_info'))
       /\ ret'.op = "add_note" =>
              /\ ~ret'.raised
              /\ NotesOf(remembered_info') =
                     Append(NotesOf(remembered_info), ret'.arg)]_vars

\* C20: remember_info(key, value) makes the store map key to value; a stored
\* value changes only when its key is remembered again; recall_info(key)
\* reports the stored value, not the nothing-remembered message, and leaves
\* the store as it was.
C20_RecallReportsRemembered ==
    [][/\ ret'.op = "remember_info" =>
              /\ ret'.arg \in DOMAIN remembered_info'
              /\ remembered_info'[ret'.arg].t = "str"
              /\ ret'.msg = "Okay, I've remembered that " \o ret'.arg \o " is "
                               \o remembered_info'[ret'.arg].s \o "."
       /\ \A k \in DOMAIN remembered_info :
              remembered_info[k].t = "str" =>
                  \/ (k \in DOMAIN remembered_info'
                         /\ remembered_info'[k] = remembered_info[k])
                  \/ (ret'.op = "remember_info" /\ ret'.arg = k)
       /\ ret'.op = "recall_info" =>
              /\ remembered_info' = remembered_info
              /\ (ret'.arg \in DOMAIN remembered_info
                     /\ remembered_info[ret'.arg].t = "str") =>
                    ret'.msg = "You asked me to remember that " \o ret'.arg
                                   \o " is " \o remembered_info[ret'.arg].s
                                   \o "."]_vars

\* ------------------------------------------------------------ claim C25
\* the failure category of a path of to_diagnosis: the four backend ones
\* and the failed device RPC
DiagCategory(oc) ==
    CASE oc = "no_server_url" -> "not_configured"
      [] oc = "http_request_error" -> "unreachable"
      [] oc = "http_status_error" -> "http_error"
      [] oc \in {"http_bad_json", "http_not_object"} -> "malformed"
      [] oc \in {"rpc_attr_error", "rpc_error_named", "rpc_error_other"} -> "rpc"
      [] OTHER -> "none"

DiagCategories == {"not_configured", "unreachable", "http_error", "malformed", "rpc"}

\* the apologies to_diagnosis gives for the failures of one category
ApologiesOf(category) ==
    CASE category = "not_configured" -> {StrVal(NoServerUrl)}
      [] category = "unreachable" -> {HttpResult("http_request_error", 500, "")}
      [] category = "http_error" ->
             {HttpResult("http_status_error", c, "") : c \in StatusCodes}
      [] category = "malformed" ->
             {HttpResult(oc, 500, "") : oc \in {"http_bad_json", "http_not_object"}}
      [] category = "rpc" ->
             {RpcResult(oc) : oc \in {"rpc_attr_error", "rpc_error_named",
                                      "rpc_error_other"}}

\* C25: the apology to_diagnosis returns for a failure of one category
\* (backend URL not configured, backend unreachable, HTTP error status,
\* malformed response payload, failed device RPC) is an apology string that
\* it returns for no failure of another category.
C25_ApologiesDistinct ==
    (dpc = "returned" /\ DiagCategory(outcome) \in DiagCategories) =>
        /\ diag_ret.value.t = "str"
        /\ diag_ret.value.s # ""
        /\ \A category \in DiagCategories :
              category # DiagCategory(outcome) =>
                  diag_ret.value \notin ApologiesOf(category)

\* ------------------------------------------------------------ claim C28
IsAndroid(p) == p.metadata # "" /\ StartsWith(p.metadata, "android")

RpcRequests(reqs) ==
    SelectSeq(reqs, LAMBDA q : q.endpoint = "rpc:getFieldpieceData")

PostRequests(reqs) == SelectSeq(reqs, LAMBDA q : q.endpoint = "/diagnoseV2")

\* C28: the steps of to_diagnosis are gated in order. The device RPC goes
\* only to a remote participant whose metadata begins with android, and is
\* not issued when the room is unavailable or holds no such participant; the
\* POST to the backend is issued only after the RPC has returned successfully
\* and with the backend URL configured; a gate that fails gives its apology
\* and no later step is executed.
C28_StepsGatedInOrder ==
    dpc # "idle" =>
        /\ \A i \in 1..Len(requests) :
              requests[i].endpoint = "rpc:getFieldpieceData" =>
                  /\ i = 1
                  /\ room.available
                  /\ \E p \in Range(room.participants) :
                        p.identity = requests[i].id /\ IsAndroid(p)
        /\ (~room.available \/ \A p \in Range(room.participants) : ~IsAndroid(p))
              => requests = <<>>
        /\ \A i \in 1..Len(requests) :
              requests[i].endpoint = "/diagnoseV2" =>
                  /\ i = 2
                  /\ Len(RpcRequests(requests)) = 1
                  /\ server_url # ""
                  /\ outcome \notin {"rpc_attr_error", "rpc_error_named",
                                     "rpc_error_other", "device_found"}
        /\ dpc = "returned" =>
              /\ outcome = "no_room_io" =>
                    (diag_ret.value = StrVal(NoRoom) /\ requests = <<>>)
              /\ outcome = "no_device" =>
                    (diag_ret.value = StrVal(NoDevice) /\ requests = <<>>)
              /\ DiagCategory(outcome) = "rpc" =>
                    /\ diag_ret.value.s \in Apologies
                    /\ Len(requests) = 1
                    /\ PostRequests(requests) = <<>>
              /\ outcome = "no_server_url" =>
                    /\ diag_ret.value = StrVal(NoServerUrl)
                    /\ Len(requests) = 1
                    /\ PostRequests(requests) = <<>>

\* the android client stood second in the room, behind a participant whose
\* metadata only contains the marker; the RPC went to it and the POST followed
C28_Witness ==
    /\ dpc = "returned"
    /\ outcome = "http_ok"
    /\ Len(room.participants) = 2
    /\ room.participants[1].identity = "viewer"
    /\ room.participants[2].identity = "tech-phone"
    /\ requests = <<RpcRequest("tech-phone"), PostRequest>>

\* ------------------------------------------------------- claims C29-C30
\* C29: the filler task speaks only when it wakes from its 8 second delay
\* and finds the stop event unset: a phrase is never handed to session.say
\* from any other place of the task, nor on a wake that finds the event set.
C29_SpeaksOnlyAfterDelayAndCheck ==
    [][(spoken' # spoken \/ (fpc' = "say" /\ fpc # "say")) =>
          /\ fpc = "sleep8"
          /\ ~stop_event
          /\ fpc' = "say"
          /\ spoken' = spoken + 1]_vars

\* the task went through its delay and check as often as the bound allows
\* and is speaking its last phrase while the backend is awaited
C29_Witness ==
    /\ fpc = "say"
    /\ spoken = MaxFiller
    /\ ~stop_event
    /\ dpc = "http"

StopRequested == stop_event \/ cancel_req

\* C30: while the stop event is unset and the task is not cancelled the loop
\* goes on: a wake leads to a phrase, a finished phrase to the next delay
\* (through the 5 second pause when session.say failed); once the event is set
\* or the task is cancelled no new phrase is started and the task eventually
\* ends.
C30_FillerRepeatsUntilStopped ==
    /\ [][(~StopRequested /\ fpc' # fpc) =>
             /\ fpc = "sleep8" => fpc' = "say"
             /\ fpc = "say" => fpc' \in {"sleep8", "sleep5"}
             /\ fpc = "sleep5" => fpc' = "sleep8"]_vars
    /\ [][StopRequested => spoken' = spoken]_vars
    /\ StopRequested ~> FillerFinished

\* the task was stopped during the pause that follows a failed phrase and
\* ended by cancellation
C30_Witness ==
    /\ fpc = "cancelled"
    /\ spoken >= 1
    /\ stop_event
    /\ cancel_req

\* ------------------------------------------------------- claims C23-C24
\* the last n valid items of a context, in their order
LastValid(items, n, keep_system_message, keep_function_call) ==
    LET valid == SelectSeq(items, LAMBDA it :
                     ValidItem(it, keep_system_message, keep_function_call))
    IN  IF n >= Len(valid) THEN valid
        ELSE SubSeq(valid, Len(valid) - n + 1, Len(valid))

\* C23: the result of _truncate_chat_ctx holds, in chronological order, only
\* items out of the last N valid items of its input; so for every N >= 0 it
\* has at most N items and none of them is invalid.
C23_OnlyLastValidItems ==
    ret.op = "_truncate_chat_ctx" =>
        LET a == ret.arg
            last == LastValid(a.items, a.keep_last_n_messages,
                              a.keep_system_message, a.keep_function_call)
        IN  /\ ret.msg = SelectSeq(last, LAMBDA it : it \in Range(ret.msg))
            /\ Len(ret.msg) <= a.keep_last_n_messages
            /\ \A i \in 1..Len(ret.msg) :
                  ValidItem(ret.msg[i], a.keep_system_message,
                            a.keep_function_call)

\* C24: the result of _truncate_chat_ctx does not begin with a function call
\* output, and every function call output in it comes after the function
\* call it belongs to.
C24_NoDanglingOutputs ==
    ret.op = "_truncate_chat_ctx" =>
        /\ Len(ret.msg) > 0 => ret.msg[1].type # "function_call_output"
        /\ \A i \in 1..Len(ret.msg) :
              ret.msg[i].type = "function_call_output" =>
                  \E j \in 1..(i - 1) :
                      /\ ret.msg[j].type = "function_call"
                      /\ ret.msg[j].call_id = ret.msg[i].call_id

\* ------------------------------------------------------- claims C22, C27
\* the history BaseAgent.on_enter started from, as a step shows it: the
\* active specialist's history, with the captured image behind it when
\* VisualDataAgent added one
OwnBefore(new) ==
    IF /\ active = Visual
       /\ Len(new) > Len(hist[active])
       /\ new[Len(hist[active]) + 1] = UserItem(nextId)
    THEN Append(hist[active], UserItem(nextId))
    ELSE hist[active]

\* C22: when summarizing the session state fails during on_enter, the
\* activation still completes without raising: the entering specialist keeps
\* its history, the previous specialist's items are all carried over, and the
\* last item is a new system message with the could-not-summarize placeholder.
C22_SummarizeFailureKeepsActivation ==
    [][(ret'.op = "on_enter" /\ ret'.arg = "summarize_failed") =>
          LET new == hist'[active]
              own == OwnBefore(new)
          IN  /\ ~ret'.raised
              /\ ~pendingEnter'
              /\ active' = active
              /\ Len(new) > Len(own)
              /\ SubSeq(new, 1, Len(own)) = own
              /\ prev_agent \notin {None, active} =>
                    \A it \in Range(hist[prev_agent]) : it \in Range(new)
              /\ new[Len(new)].role = "system"
              /\ new[Len(new)].agent = active
              /\ new[Len(new)].summary = CouldNotSummarize
              /\ new[Len(new)].id \notin Ids(own)]_vars

\* Workflow was entered from Main, whose two items were carried over, and the
\* summary failed
C22_Witness ==
    /\ ret.op = "on_enter"
    /\ ret.arg = "summarize_failed"
    /\ active = Workflow
    /\ prev_agent = Main
    /\ Len(hist[Main]) = 2
    /\ Len(hist[Workflow]) = 3
    /\ SubSeq(hist[Workflow], 1, 2) = hist[Main]
    /\ hist[Workflow][3].summary = CouldNotSummarize

\* C27: on_enter of specialist S with previous specialist P leaves S's
\* history equal to: S's history before, then exactly the items of P's
\* history whose identity S's history did not hold, in P's order, then one
\* new system message that names S and carries the session-state summary
\* (the placeholder when the summary failed).
C27_OnEnterHistoryShape ==
    [][(ret'.op = "on_enter" /\ prev_agent # None) =>
          LET new == hist'[active]
              own == OwnBefore(new)
              previous == IF prev_agent = active THEN own ELSE hist[prev_agent]
              carried == SelectSeq(previous, LAMBDA it : it.id \notin Ids(own))
              last == new[Len(new)]
          IN  /\ Len(new) = Len(own) + Len(carried) + 1
              /\ SubSeq(new, 1, Len(own)) = own
              /\ SubSeq(new, Len(own) + 1, Len(own) + Len(carried)) = carried
              /\ last.role = "system"
              /\ last.agent = active
              /\ last.id \notin Ids(own) \cup Ids(previous)
              /\ last.summary =
                     (IF ret'.arg = "summarize_failed" THEN CouldNotSummarize
                      ELSE Summarize(remembered_info))]_vars

\* Main was re-entered from Workflow: Main had its own system message, which
\* Workflow had carried; Workflow's system message and a later user item are
\* new to Main and follow in Workflow's order, before Main's new system message
C27_Witness ==
    /\ ret.op = "on_enter"
    /\ ret.arg = ""
    /\ active = Main
    /\ prev_agent = Workflow
    /\ Len(hist[Workflow]) = 3
    /\ Len(hist[Main]) = 4
    /\ hist[Main][1] = hist[Workflow][1]
    /\ hist[Main][2] = hist[Workflow][2]
    /\ hist[Main][3] = hist[Workflow][3]
    /\ hist[Workflow][2].agent = Workflow
    /\ hist[Workflow][3].role = "user"
    /\ hist[Main][4].agent = Main
    /\ hist[Main][4].summary.kind = "empty"

\* ------------------------------------------------------- claims C21, C26
\* the filler task has been created and has not ended
FillerOutstanding == fpc \in {"created", "sleep8", "say", "sleep5"}

\* C21: ending the session while the filler task of a to_diagnosis call is
\* outstanding cancels the task, no phrase is handed to session.say after
\* the session has ended, and the session no longer holds the media room.
C21_SessionEndStopsFiller ==
    /\ [][(ended' /\ ~ended /\ FillerOutstanding) =>
             (stop_event' /\ cancel_req' /\ ~current_room')]_vars
    /\ [][ended => (spoken' = spoken /\ current_room' = current_room)]_vars

\* the session state the claim names
SessionState == <<remembered_info, agents, prev_agent, active>>

\* a step of the filler task: it moves on in its loop or speaks
FillerStep == (fpc # "none" /\ fpc' # fpc) \/ spoken' # spoken

\* C26: no step of the filler task writes remembered_info (the notes in it),
\* the agents registry, prev_agent or the active specialist; in every
\* interleaving of the task with the conversation path each change of them
\* is made by a tool call or a handoff.
C26_FillerNeverWritesSessionState ==
    [][/\ FillerStep => SessionState' = SessionState
       /\ SessionState' # SessionState =>
             /\ ret'.op \in {"remember_info", "add_note", "transfer"}
             /\ fpc' = fpc
             /\ spoken' = spoken
             /\ dpc' = dpc]_vars

\* to_diagnosis returned while the filler task was still speaking; since
\* then a handoff to NoteAgent was made and a note was added
C26_Witness ==
    /\ dpc = "returned"
    /\ fpc = "say"
    /\ spoken >= 1
    /\ active = Note
    /\ prev_agent = Main
    /\ ret.op = "add_note"
    /\ "notes" \in DOMAIN remembered_info

\* ------------------------------------------------------------ claim C31
\* C31: an error raised by session.say does not end the filler loop. While the
\* stop event is unset a phrase that ends leads to the next 8 second delay or,
\* if it ended with an error, to the 5 second pause; the pause is entered only
\* from a phrase and only with the stop event unset; a pause that ends with
\* nothing stopped leads to the next delay; a phrase that ends, with an error
\* or not, after the stop event was set leads out of the loop without a pause.
C31_ErrorBacksOffAndRetries ==
    /\ [][(fpc = "say" /\ fpc' # fpc /\ ~stop_event) =>
             fpc' \in {"sleep8", "sleep5"}]_vars
    /\ [][(fpc' = "sleep5" /\ fpc # "sleep5") =>
             (fpc = "say" /\ ~stop_event)]_vars
    /\ [][(fpc = "sleep5" /\ fpc' # fpc /\ ~StopRequested) =>
             fpc' = "sleep8"]_vars
    /\ [][(fpc = "say" /\ fpc' # fpc /\ stop_event) => fpc' = "done"]_vars

\* a phrase ended with an error while the backend was awaited and the loop is
\* in its 5 second pause
C31_Witness ==
    /\ fpc = "sleep5"
    /\ spoken >= 1
    /\ ~stop_event
    /\ dpc = "http"

\* ------------------------------------------------------------ claim C32
\* the messages by which list_workflows reports that it failed
ListFailureMessages == {ConfigIssue, ListFailed}

\* C32: list_workflows never changes current_workflow or current_step_index;
\* when it succeeds the cache becomes the id-to-name mapping of the returned
\* entries that carry an id, whatever the cache held before; when it fails
\* (missing configuration, HTTP or transport error, a response it cannot
\* work with) the cache is left as it was.
C32_ListWorkflowsFrame ==
    [][ret'.op = "list_workflows" =>
          /\ ~ret'.raised
          /\ current_workflow' = current_workflow
          /\ current_step_index' = current_step_index
          /\ IF ret'.msg \in ListFailureMessages
             THEN workflows_cache' = workflows_cache
             ELSE \E d \in ListResponses :
                     /\ ret'.msg = IF Len(d) = 0 THEN NoWorkflowsAvailable
                                   ELSE WorkflowListText(d)
                     /\ workflows_cache' = CacheOf(d)]_vars

\* ------------------------------------------------------------ claim C33
\* C33: on a loaded workflow of N >= 1 steps and from any index,
\* jump_to_step(n) sets current_step_index to n-1 and returns the report of
\* step n if and only if 1 <= n <= N.
C33_JumpSetsAndReportsIffInRange ==
    [][(/\ ret'.op = "jump_to_step"
        /\ current_workflow.loaded
        /\ Len(current_workflow.steps) >= 1) =>
          \E n \in StepNumbers :
             /\ ret'.arg = NumText(n)
             /\ (/\ current_step_index' = n - 1
                 /\ ~ret'.raised
                 /\ \E step \in StepKinds :
                       ret'.msg = JumpStepText(n, Len(current_workflow.steps),
                                               step))
                <=> (1 <= n /\ n <= Len(current_workflow.steps))]_vars

\* ------------------------------------------------------------ claim C34
\* the state of the program outside the step cursor
OutsideCursor ==
    <<workflows_cache, remembered_info, job_metadata, processed, agents,
      active, prev_agent, hist>>

\* C34: current_step changes no state and, on a loaded workflow with steps,
\* returns the report of the step at current_step_index; none of next_step,
\* previous_step, jump_to_step and current_step changes current_workflow or
\* the workflow cache; with no workflow loaded each of them returns the
\* no-active-workflow message and changes nothing.
C34_NavigationFrame ==
    /\ [][ret'.op \in NavigationOps =>
             /\ current_workflow' = current_workflow
             /\ workflows_cache' = workflows_cache]_vars
    /\ [][ret'.op = "current_step" =>
             /\ current_step_index' = current_step_index
             /\ OutsideCursor' = OutsideCursor
             /\ (current_workflow.loaded
                    /\ Len(current_workflow.steps) >= 1) =>
                   /\ ~ret'.raised
                   /\ current_step_index + 1 \in DOMAIN current_workflow.steps
                   /\ ret'.msg =
                          CurrentStepText(current_step_index + 1,
                              Len(current_workflow.steps),
                              current_workflow.steps[current_step_index + 1])]_vars
    /\ [][(ret'.op \in NavigationOps /\ ~current_workflow.loaded) =>
             /\ ~ret'.raised
             /\ ret'.msg = NoActiveWorkflow
             /\ current_step_index' = current_step_index
             /\ OutsideCursor' = OutsideCursor]_vars

\* ------------------------------------------------------------ claim C35
\* C35: after any sequence of list_workflows, get_workflow,
\* find_workflow_by_name, next_step, previous_step, jump_to_step and
\* current_step calls, failed ones included, current_step_index is at least
\* 0; it is at most N-1 while a workflow of N >= 1 steps is loaded, and it is
\* 0 while the loaded workflow has no steps or no workflow is loaded.
C35_IndexWithinWorkflow ==
    /\ current_step_index >= 0
    /\ IF current_workflow.loaded /\ Len(current_workflow.steps) >= 1
       THEN current_step_index <= Len(current_workflow.steps) - 1
       ELSE current_step_index = 0

\* the cursor stood on the last step of a longest workflow when a lookup by
\* name found one workflow in the cache and failed to fetch it
C35_Witness ==
    /\ ret.op = "find_workflow_by_name"
    /\ ret.msg = WorkflowHttpError(500)
    /\ workflows_cache # EmptyCache
    /\ current_workflow.loaded
    /\ Len(current_workflow.steps) = MaxSteps
    /\ current_step_index = MaxSteps - 1

\* ------------------------------------------------------------ claim C36
\* C36: get_user_name never raises: for every job_metadata (absent, empty, a
\* plain tag, a JSON object, a JSON array, another JSON value) it returns the
\* first non-empty value among the name fields in their order of precedence,
\* or "there" when no field holds one.
C36_UserNameOrThere ==
    ret.op = "get_user_name" =>
        /\ ~ret.raised
        /\ ret.msg = FirstTruthy(processed, UserNameFields, PyStr("there"))

\* ------------------------------------------------------------ claim C37
\* the cursor of the Workflow specialist
Cursor == <<current_workflow, current_step_index, workflows_cache>>

\* C37: the cursor of the Workflow specialist survives handoffs. Only a step
\* taken by a tool of the Workflow specialist while it is active can change
\* current_workflow, current_step_index or the workflow cache: the handoff
\* that leaves it, every step taken while another specialist is active, the
\* handoff that enters it again and its on_enter leave all three as they
\* were.
C37_CursorSurvivesHandoffs ==
    [][(\/ active # Workflow
        \/ active' # Workflow
        \/ ret'.op \in {"on_enter", "transfer"}) => Cursor' = Cursor]_vars

\* the Workflow specialist was left with a listed cache and the cursor on
\* step 2 of a loaded workflow and has just been entered again
C37_Witness ==
    /\ active = Workflow
    /\ prev_agent = Main
    /\ ret.op = "on_enter"
    /\ current_workflow.loaded
    /\ current_step_index = 1
    /\ workflows_cache # EmptyCache

\* ------------------------------------------------------------ claim C38
\* a handoff tool has returned a specialist: its on_enter is due
HandoffStep == ~pendingEnter /\ pendingEnter'

\* a step of a to_diagnosis call or of its filler task
DiagnosisStep == dpc' # dpc \/ fpc' # fpc \/ spoken' # spoken

\* C38: to_diagnosis never changes the active specialist or the previous
\* specialist, and no handoff tool asks for "diagnosis"; so the active
\* specialist is always Main, Visual, Workflow or Note, never the registered
\* Diagnosis specialist, and every handoff starts from Main or ends in Main.
C38_DiagnosisNeverActive ==
    /\ [](agents["diagnosis"] = Diagnosis
            /\ active \in {Main, Visual, Workflow, Note})
    /\ [][DiagnosisStep =>
             (active' = active /\ prev_agent' = prev_agent
                 /\ pendingEnter' = pendingEnter)]_vars
    /\ [][HandoffStep =>
             /\ ret'.op = "transfer"
             /\ ret'.arg # "diagnosis"
             /\ ret'.agent = active'
             /\ prev_agent' = active
             /\ (active = Main \/ active' = Main)]_vars

\* Main was left for the Workflow specialist and entered again, and a
\* to_diagnosis call made from it has returned the diagnosis
C38_Witness ==
    /\ dpc = "returned"
    /\ outcome = "http_ok"
    /\ active = Main
    /\ prev_agent = Workflow
    /\ ~pendingEnter

\* ------------------------------------------------------------ claim C39
\* C39: to_main called while Main is active is a successful transfer: Main
\* stays active and becomes its own previous specialist. The on_enter that
\* follows finds every item of the previous history in Main's own history,
\* carries none over and appends the one new system message, so Main's
\* history has no two items with the same identity.
C39_SelfHandoff ==
    /\ [][(HandoffStep /\ ret'.arg = "main" /\ active = Main) =>
             /\ ~ret'.raised
             /\ ret'.agent = Main
             /\ active' = Main
             /\ prev_agent' = Main]_vars
    /\ [][(pendingEnter /\ ~pendingEnter' /\ prev_agent = Main
               /\ active = Main) =>
             /\ ret'.op = "on_enter"
             /\ Len(hist'[Main]) = Len(hist[Main]) + 1
             /\ SubSeq(hist'[Main], 1, Len(hist[Main])) = hist[Main]
             /\ hist'[Main][Len(hist'[Main])].role = "system"
             /\ hist'[Main][Len(hist'[Main])].id \notin Ids(hist[Main])
             /\ NoDuplicateIds(hist'[Main])]_vars

\* Main, holding the items of a conversation, was handed to itself and has
\* run its on_enter
C39_Witness ==
    /\ ret.op = "on_enter"
    /\ active = Main
    /\ prev_agent = Main
    /\ Len(hist[Main]) >= 3
    /\ \E i \in 1..Len(hist[Main]) : hist[Main][i].role = "user"
====
